---------------------------- MODULE Spec2Model ----------------------------
(***************************************************************************)
(* A model of the Internet of Chuffs server (RobMeades/ioc-server):        *)
(*   - the HLS publisher of audio-out.go (operateAudioOut, makePlaylist),  *)
(*   - the segmenter of audio-process.go (operateAudioProcessing),         *)
(*   - the timeline assembler of audio-process.go (processDatagram),       *)
(*   - the TCP framer of audio-in.go (handleUrtpStream).                   *)
(*   - the UDP server and the decoders of audio-in.go,                     *)
(*   - the HTTP handlers of audio-out.go (homeHandler, streamHandler).     *)
(* Each component has its own specification over the shared variables.     *)
(***************************************************************************)
EXTENDS Integers, Sequences, FiniteSets, TLC

VARIABLES
    \* ---- publisher (audio-out.go) ----
    mp3FileList,          \* the list of Mp3AudioFile, front first
    mediaSequenceNumber,
    playlist,             \* the published playlist bytes
    playlistLocker,       \* "free" or "http"
    mp3FileListLocker,    \* "free" or "tick"
    tickPc,               \* position of the 100 ms ticker goroutine
    tickCur,              \* fileName of newElement (0 = nil)
    tickNext,             \* fileName of next (0 = nil)
    tickData,             \* playlist built by the tick, not yet published
    ctlPc,                \* position of the media control goroutine
    ctlData,              \* playlist built by the control goroutine
    outputBufferState,    \* last OutputBufferState sent to the segmenter
    disk,                 \* names of the segment files in the live directory
    mp3Handle,            \* the segmenter's open segment file (0 = nil)
    nextFile,             \* next unused temporary file name
    agedOut,              \* observer: segments flipped since the last Reset
    lastReset,            \* observer: files the last Reset deleted and kept
    orphans,              \* observer: files closed without being published
    \* ---- segmenter (audio-process.go) ----
    newDatagramList,      \* datagrams received and not yet processed
    processedDatagramList,\* datagrams processed, newest first
    pcmAudioLen,          \* pcmAudio.Len(), in bytes
    oosAge,               \* in milliseconds
    mp3SamplesToEncode,
    samplesEncoded,
    mp3Offset,            \* in microseconds
    mp3Duration,          \* in microseconds
    minOutputBufferedAudio,  \* in milliseconds
    mp3Audio,             \* samples whose encoding is held in the mp3Audio buffer
    procPc,               \* position of the 20 ms ticker goroutine
    mediaSent,            \* what the last tick step sent to MediaControlChannel
    fileError,            \* observer: a segment file failed to open or be written
    silence,              \* observer: the last OutputBufferState handled since the tick
    crashed,              \* the process ended in a run-time panic
    timeline,             \* observer: the samples written for a regular run of records
    pcmWrites,            \* what processDatagram last wrote to pcmAudio, in samples
    fillInput,            \* the arguments of one call of handleGap
    fillOutput,           \* what that call wrote to pcmAudio
    \* ---- TCP reception (audio-in.go) ----
    stream,               \* the bytes the client sends on one connection
    streamPos,            \* how many of them server.Read has returned
    reassemblyData,       \* TcpReassemblyData of the connection
    emitted,              \* the packets handed to handleUrtpDatagram, in order
    splitHeader,          \* observer: a read ended in the middle of a header
    \* ---- the decoders (audio-in.go) ----
    decodeInput,          \* the coding scheme and payload of one record
    decodeOutput,         \* what the decoder returned and what was written for it
    \* ---- makePlaylist (audio-out.go) ----
    makeInput,            \* the segment list and media sequence number of one call
    makeOutput,           \* the playlist it built and the duration it returned
    \* ---- the HTTP handlers (audio-out.go) ----
    httpRequest,          \* the request being handled
    httpHeader,           \* out.Header() of the request being handled
    httpResponse,         \* the status and header written to the client
    httpPc,               \* where the handler is
    \* ---- the way of a datagram to the timeline (audio-process.go) ----
    accepted,             \* observer: the datagrams taken from the channel, in order
    applied,              \* observer: the datagrams given to processDatagram, in order
    consumerMsg,          \* the datagram the channel goroutine holds
    newDatagramListLocker,\* "free" or "tick"
    \* ---- the goroutines, their channels and mutexes ----
    task,                 \* where each goroutine is
    \* ---- the TCP server and its connections (audio-in.go) ----
    currentServer,        \* the connection accepted last (0 = nil)
    connOpen,             \* the connections not closed yet
    reader,               \* where the goroutine of each connection is
    sharedTcpBuffer,      \* tcpBuffer: for each byte, the connection it came from
    took,                 \* observer: whose bytes each goroutine has taken from tcpBuffer
    \* ---- UDP reception (audio-in.go) ----
    udpServing,           \* the read loop of udpServer is running
    now,                  \* time.Now(), in milliseconds
    timingDatagramSent,   \* the time the last timing datagram was sent
    udpPc,                \* where udpServer is: reading, or sending a timing datagram
    tcpPc,                \* where the goroutine of the TCP connection is, likewise
    echoTimes,            \* observer: when the last two timing datagrams were sent
    udpOutcome            \* the last packet read and what was done with it

\* The variables of the publisher alone
pubOnly == <<mp3FileList, mediaSequenceNumber, playlist, playlistLocker,
             mp3FileListLocker, tickPc, tickCur, tickNext, tickData, ctlPc,
             ctlData, outputBufferState, agedOut, lastReset>>

\* The segment files, which the segmenter makes and the publisher deletes
fileVars == <<disk, mp3Handle, nextFile, orphans>>

\* The variables of the segmenter alone
procOnly == <<newDatagramList, processedDatagramList, pcmAudioLen, oosAge,
              mp3SamplesToEncode, samplesEncoded, mp3Offset, mp3Duration,
              minOutputBufferedAudio, mp3Audio, procPc, mediaSent, fileError, silence,
              crashed>>

\* The variables of the timeline writer alone
gapOnly == <<pcmWrites, timeline>>

\* The variables of TCP reception
streamVars == <<stream, streamPos, reassemblyData, emitted, splitHeader>>

\* The variables of one call of handleGap
fillVars == <<fillInput, fillOutput>>

\* The variables of one call of a decoder
decodeVars == <<decodeInput, decodeOutput>>

\* The variables of one call of makePlaylist
makeVars == <<makeInput, makeOutput>>

\* The variables of the HTTP handlers
httpVars == <<httpRequest, httpHeader, httpResponse, httpPc>>

\* The variables of the way of a datagram to the timeline
orderVars == <<accepted, applied, consumerMsg, newDatagramListLocker>>

\* The positions of the goroutines
taskVars == <<task>>

\* The variables of the TCP server
connVars == <<currentServer, connOpen, reader, sharedTcpBuffer, took>>

\* The variables of UDP reception
udpVars == <<udpServing, now, timingDatagramSent, udpPc, tcpPc, echoTimes, udpOutcome>>

vars == <<pubOnly, fileVars, procOnly, gapOnly, streamVars, fillVars, decodeVars, makeVars, httpVars, orderVars, taskVars, connVars, udpVars>>

\* What the actions of the publisher leave alone
notOut == <<procOnly, gapOnly, streamVars, fillVars, decodeVars, makeVars, httpVars, orderVars, taskVars, connVars, udpVars>>

\* What the actions of the segmenter leave alone
notProc == <<pubOnly, gapOnly, streamVars, fillVars, decodeVars, makeVars, httpVars, orderVars, taskVars, connVars, udpVars>>

\* What the actions of TCP reception leave alone
notStream == <<pubOnly, fileVars, procOnly, gapOnly, fillVars, decodeVars, makeVars, httpVars, orderVars, taskVars, connVars, udpVars>>

-----------------------------------------------------------------------------
(* Bounds of the model *)

MaxFiles == 3

MaxSegments == 1

MaxNewDatagrams == 1

MaxPcmBytes == 640

MaxMp3AudioSamples == 1152

MaxJump == 25

MaxChunk == 20

MaxGap == 8

MaxUnicamBytes == 70

MaxPcmPayload == 4

MaxNow == 3

MaxListLen == 3

MaxAccepted == 3

MaxQuiet == 2

MaxConnections == 2

MaxRead == 2

(* Program parameters and constants *)

SAMPLING_FREQUENCY == 16000
BLOCK_DURATION_MS == 20
SAMPLES_PER_BLOCK == (SAMPLING_FREQUENCY * BLOCK_DURATION_MS) \div 1000
URTP_SAMPLE_SIZE == 2
SAMPLES_PER_UNICAM_BLOCK == SAMPLING_FREQUENCY \div 1000
UNICAM_CODED_SHIFT_SIZE_BITS == 4
PCM_SIGNED_16_BIT == 0
\* TIMING_DATAGRAM_PERIOD, in milliseconds
TIMING_DATAGRAM_PERIOD == 1000
\* The step of the clock, in milliseconds
ClockStep == 500
UNICAM_COMPRESSED_8_BIT == 1
SYNC_BYTE == 90
URTP_TIMESTAMP_SIZE == 8
URTP_SEQUENCE_NUMBER_SIZE == 2
URTP_PAYLOAD_SIZE_SIZE == 2
URTP_HEADER_SIZE == 14
URTP_DATAGRAM_MAX_SIZE == URTP_HEADER_SIZE + SAMPLES_PER_BLOCK * URTP_SAMPLE_SIZE
MAX_NUM_AUDIO_CODING_SCHEMES == 2
NUM_PROCESSED_DATAGRAMS == 1
MAX_GAP_FILL_MILLISECONDS == 500
\* MIN_OUTPUT_BUFFERED_AUDIO, in milliseconds
MIN_OUTPUT_BUFFERED_AUDIO == 1000
\* segmentFileDurationMilliseconds, a parameter of operateAudioProcessing
segmentFileDurationMilliseconds == 40
\* maxOosTimeSeconds, a parameter of operateAudioProcessing
maxOosTimeSeconds == 1
\* mp3SamplesPerFrame, the MP3 frame size LAME reports at 16 kHz
mp3SamplesPerFrame == 576
mp3FileSamples == (segmentFileDurationMilliseconds * SAMPLING_FREQUENCY) \div 1000
maxOosAge == 1000 * maxOosTimeSeconds

\* playlistLengthSeconds, a parameter of operateAudioOut
playlistLengthSeconds == 1
mp3UsableAge == playlistLengthSeconds
mp3RemovableAge == mp3UsableAge * 2
\* MAX_PLAY_LAG, in milliseconds
MAX_PLAY_LAG == 1000
\* mp3Duration of a full segment, in milliseconds (27 frames of 576 samples)
SegmentDurationMs == 972

-----------------------------------------------------------------------------
(* Sequence helpers *)

RECURSIVE SelectUsable(_)
SelectUsable(l) ==
    IF l = <<>> THEN <<>>
    ELSE IF Head(l).usable THEN <<Head(l)>> \o SelectUsable(Tail(l))
         ELSE SelectUsable(Tail(l))

RECURSIVE SumDuration(_)
SumDuration(l) == IF l = <<>> THEN 0 ELSE Head(l).duration + SumDuration(Tail(l))

RECURSIVE MaxDuration(_)
MaxDuration(l) ==
    IF l = <<>> THEN 0
    ELSE LET m == MaxDuration(Tail(l))
         IN IF m < Head(l).duration THEN Head(l).duration ELSE m

Names(l) == {l[i].fileName : i \in 1..Len(l)}

IndexOf(l, f) == CHOOSE i \in 1..Len(l) : l[i].fileName = f

RemoveAt(l, i) == SubSeq(l, 1, i - 1) \o SubSeq(l, i + 1, Len(l))

\* list.Element.Next(): the fileName of the element after f, 0 at the end
NextOf(l, f) ==
    LET i == IndexOf(l, f) IN IF i < Len(l) THEN l[i + 1].fileName ELSE 0

Front(l) == IF l = <<>> THEN 0 ELSE l[1].fileName

CeilDiv(a, b) == (a + b - 1) \div b

-----------------------------------------------------------------------------
(* makePlaylist, audio-out.go *)

\* A division that rounds down
FloorDiv(a, b) == a \div b

\* Line 133: math.Ceil of a / b
Ceil(a, b) == (a + b - 1) \div b

\* Lines 116-126: the #EXTINF and file name lines of the usable segments
RECURSIVE SegmentData(_)
SegmentData(list) ==
    IF list = <<>> THEN <<>>
    ELSE (IF Head(list).usable
          THEN << [tag |-> "#EXTINF", value |-> Head(list).duration],
                  [tag |-> "file", value |-> Head(list).fileName] >>
          ELSE <<>>) \o SegmentData(Tail(list))

\* makePlaylist, lines 106-161: the lines of the playlist, durations in
\* milliseconds, and the duration returned
MakePlaylist(list, msn) ==
    LET u == SelectUsable(list)
        numSegments == Len(u)
        fixed == << [tag |-> "#EXTM3U", value |-> 0],
                    [tag |-> "#EXT-X-VERSION", value |-> 3] >>
        dynamic == << [tag |-> "#EXT-X-TARGETDURATION",
                       value |-> Ceil(MaxDuration(u), 1000)],
                      [tag |-> "#EXT-X-MEDIA-SEQUENCE", value |-> msn] >>
        start == IF SumDuration(u) > MAX_PLAY_LAG
                 THEN << [tag |-> "#EXT-X-START", value |-> MAX_PLAY_LAG] >>
                 ELSE <<>>
    IN [lines |-> IF numSegments > 0
                  THEN fixed \o dynamic \o start \o SegmentData(list)
                  ELSE fixed,
        totalDuration |-> SumDuration(u)]

\* The segment lists and media sequence numbers makePlaylist is called with
SegmentsOf(n) ==
    { [i \in 1..n |-> [fileName |-> i, age |-> 0, duration |-> d[i],
                       usable |-> u[i], removable |-> FALSE]] :
        d \in [1..n -> {500, 1000, 1001}], u \in [1..n -> BOOLEAN] }

SegmentLists == UNION { SegmentsOf(n) : n \in 0..MaxListLen }

NotMade == [done |-> FALSE, lines |-> <<>>, totalDuration |-> 0]

NoMake ==
    /\ makeInput = [list |-> <<>>, mediaSequenceNumber |-> 0]
    /\ makeOutput = NotMade

InitMake ==
    /\ makeInput \in [list : SegmentLists, mediaSequenceNumber : {0, 7}]
    /\ makeOutput = NotMade

\* makePlaylist is called
MakePlaylistCall ==
    /\ ~makeOutput.done
    /\ LET r == MakePlaylist(makeInput.list, makeInput.mediaSequenceNumber)
       IN makeOutput' = [done |-> TRUE, lines |-> r.lines,
                         totalDuration |-> r.totalDuration]
    /\ UNCHANGED makeInput
    /\ UNCHANGED <<pubOnly, fileVars, procOnly, gapOnly, streamVars, fillVars,
                   decodeVars, httpVars, orderVars, taskVars, connVars, udpVars>>

NextMake == MakePlaylistCall

\* The playlist before anything has been built, and after "playlist = nil"
NilPlaylist ==
    [nil |-> TRUE, targetDuration |-> 0, mediaSequence |-> 0,
     start |-> FALSE, segments |-> <<>>]

\* Lines 115-140: the bytes built from the list as it is when iterated
PlaylistBytes(list, msn) ==
    LET u == SelectUsable(list)
    IN IF Len(u) > 0
       THEN [nil |-> FALSE,
             targetDuration |-> CeilDiv(MaxDuration(u), 1000),
             mediaSequence |-> msn,
             start |-> SumDuration(u) > MAX_PLAY_LAG,
             segments |-> [i \in 1..Len(u) |->
                             [duration |-> u[i].duration, fileName |-> u[i].fileName]]]
       ELSE [nil |-> FALSE, targetDuration |-> 0, mediaSequence |-> 0,
             start |-> FALSE, segments |-> <<>>]

\* What makePlaylist has in hand when it asks for the playlist mutex
MakePlaylistData(list, msn) ==
    [bytes |-> PlaylistBytes(list, msn),
     totalDuration |-> SumDuration(SelectUsable(list))]

NoData == [bytes |-> NilPlaylist, totalDuration |-> 0]

-----------------------------------------------------------------------------
(* The publisher: operateAudioOut, audio-out.go *)

InitOut ==
    /\ mp3FileList = <<>>
    /\ mediaSequenceNumber = 0
    \* line 237: the initial (empty) playlist
    /\ playlist = PlaylistBytes(<<>>, 0)
    /\ playlistLocker = "free"
    /\ mp3FileListLocker = "free"
    /\ tickPc = "idle"
    /\ tickCur = 0
    /\ tickNext = 0
    /\ tickData = NoData
    /\ ctlPc = "idle"
    /\ ctlData = NoData
    /\ outputBufferState = [Buffered |-> 0, BufferSize |-> 0, sent |-> 0]
    \* audio-process.go line 314: the first MP3 output file
    /\ disk = {1}
    /\ mp3Handle = 1
    /\ nextFile = 2
    /\ agedOut = 0
    /\ lastReset = [deleted |-> {}, kept |-> {}]
    /\ orphans = {}

\* time.Now().Sub(timestamp) in seconds; ages beyond mp3RemovableAge + 1 are
\* not told apart, as the code compares ages with the two thresholds only
Age(e) == e.age

\* Lines 245-251: the ticker fires, the list is locked, iteration starts
TickStart ==
    /\ tickPc = "idle"
    /\ mp3FileListLocker = "free"
    /\ IF mp3FileList = <<>>
       THEN UNCHANGED <<mp3FileListLocker, tickPc, tickCur, tickNext>>
       ELSE /\ mp3FileListLocker' = "tick"
            /\ tickCur' = Front(mp3FileList)
            /\ tickNext' = NextOf(mp3FileList, Front(mp3FileList))
            /\ tickPc' = "age"
    /\ UNCHANGED <<mp3FileList, mediaSequenceNumber, playlist, playlistLocker,
                   tickData, ctlPc, ctlData, outputBufferState, disk, mp3Handle,
                   nextFile, lastReset, orphans, agedOut>>
    /\ UNCHANGED notOut

\* A segment retired only at the age at which it may be deleted
IsStaleLate(e) == e.usable /\ e.age > mp3RemovableAge

\* Line 254: is the element to be retired from the playlist
IsStale(e) == e.usable /\ Age(e) > mp3UsableAge

\* A sequence number that is not advanced
SameSequence(msn) == msn

\* Line 256
BumpSequence(msn) == msn + 1

\* Lines 254-260: flip usable, count it, build the new playlist
TickAge ==
    /\ tickPc = "age"
    /\ LET i == IndexOf(mp3FileList, tickCur)
           e == mp3FileList[i]
       IN IF IsStale(e)
          THEN /\ mp3FileList' = [mp3FileList EXCEPT ![i].usable = FALSE]
               /\ mediaSequenceNumber' = BumpSequence(mediaSequenceNumber)
               /\ tickData' = MakePlaylistData(mp3FileList', mediaSequenceNumber')
               /\ tickPc' = "publish"
               /\ agedOut' = agedOut + 1
          ELSE /\ tickPc' = "remove"
               /\ UNCHANGED <<mp3FileList, mediaSequenceNumber, tickData, agedOut>>
    /\ UNCHANGED <<playlist, playlistLocker, mp3FileListLocker, tickCur,
                   tickNext, ctlPc, ctlData, outputBufferState, disk, mp3Handle,
                   nextFile, lastReset, orphans>>
    /\ UNCHANGED notOut

\* makePlaylist lines 142-158, called from the tick
TickPublish ==
    /\ tickPc = "publish"
    /\ playlistLocker = "free"
    /\ playlist' = tickData.bytes
    /\ tickPc' = "send"
    /\ UNCHANGED <<mp3FileList, mediaSequenceNumber, playlistLocker,
                   mp3FileListLocker, tickCur, tickNext, tickData, ctlPc, ctlData,
                   outputBufferState, disk, mp3Handle, nextFile, lastReset, orphans, agedOut>>
    /\ UNCHANGED notOut

\* Lines 262-265: tell the segmenter how much audio is buffered
TickSend ==
    /\ tickPc = "send"
    /\ outputBufferState' = [Buffered |-> tickData.totalDuration,
                             BufferSize |-> mp3UsableAge * 1000,
                             sent |-> 1]
    /\ tickPc' = "remove"
    /\ tickData' = NoData
    /\ UNCHANGED <<mp3FileList, mediaSequenceNumber, playlist, playlistLocker,
                   mp3FileListLocker, tickCur, tickNext, ctlPc, ctlData,
                   disk, mp3Handle, nextFile, lastReset, orphans, agedOut>>
    /\ UNCHANGED notOut

\* An element deleted as soon as it is out of the playlist
IsRemovableEarly(e) == e.removable \/ ~e.usable

\* Line 267: is the element old enough to be deleted
IsRemovable(e) == e.removable \/ (~e.usable /\ Age(e) > mp3RemovableAge)

\* Lines 267-280: mark removable, try to delete the file, move to the next element
TickRemove ==
    /\ tickPc = "remove"
    /\ \E ok \in BOOLEAN :
         LET i == IndexOf(mp3FileList, tickCur)
             e == mp3FileList[i]
             marked == [mp3FileList EXCEPT ![i].removable = IsRemovable(e)]
             removed == IsRemovable(e) /\ ok /\ tickCur \in disk
         IN /\ mp3FileList' = IF removed THEN RemoveAt(marked, i) ELSE marked
            /\ disk' = IF removed THEN disk \ {tickCur} ELSE disk
            /\ IF tickNext = 0
               THEN /\ tickPc' = "idle"
                    /\ mp3FileListLocker' = "free"
                    /\ tickCur' = 0
                    /\ tickNext' = 0
               ELSE /\ tickPc' = "age"
                    /\ mp3FileListLocker' = "tick"
                    /\ tickCur' = tickNext
                    /\ tickNext' = NextOf(mp3FileList', tickNext)
    /\ UNCHANGED <<mediaSequenceNumber, playlist, playlistLocker, tickData,
                   ctlPc, ctlData, outputBufferState, mp3Handle, nextFile,
                   lastReset, orphans, agedOut>>
    /\ UNCHANGED notOut

\* The playlist built before the message is appended
HandleNewSegmentBuiltFirst(message) ==
    /\ mp3FileList' = Append(mp3FileList, message)
    /\ ctlData' = MakePlaylistData(mp3FileList, mediaSequenceNumber)
    /\ ctlPc' = "newPublish"

\* Lines 290-294, first half: append the message, build the playlist
HandleNewSegment(message) ==
    /\ mp3FileList' = Append(mp3FileList, message)
    /\ ctlData' = MakePlaylistData(mp3FileList', mediaSequenceNumber)
    /\ ctlPc' = "newPublish"

\* openMp3File, audio-process.go lines 103-119: a new temporary file, renamed
\* to a segment file and opened, or nil
OpenMp3File(opened) ==
    /\ mp3Handle' = IF opened THEN nextFile ELSE 0
    /\ disk' = IF opened THEN disk \cup {nextFile} ELSE disk
    /\ nextFile' = nextFile + 1

\* A message that describes the segment as removable already
NewMp3AudioFileRemovable(f) ==
    [fileName |-> f, age |-> 0, duration |-> SegmentDurationMs,
     usable |-> TRUE, removable |-> TRUE]

\* audio-process.go lines 388-394: the message describing a closed segment
NewMp3AudioFile(f) ==
    [fileName |-> f, age |-> 0, duration |-> SegmentDurationMs,
     usable |-> TRUE, removable |-> FALSE]

\* audio-process.go lines 375-408 as the publisher sees them: the segmenter
\* closes its file, announces it if it was written, and opens the next file
SegmenterCloseSegment ==
    /\ nextFile <= MaxFiles
    /\ \E written \in BOOLEAN, opened \in BOOLEAN :
         /\ IF mp3Handle # 0 /\ written
            THEN /\ ctlPc = "idle"
                 /\ HandleNewSegment(NewMp3AudioFile(mp3Handle))
                 /\ UNCHANGED orphans
            ELSE /\ orphans' = IF mp3Handle # 0 THEN orphans \cup {mp3Handle} ELSE orphans
                 /\ UNCHANGED <<mp3FileList, ctlData, ctlPc>>
         /\ OpenMp3File(opened)
    /\ UNCHANGED <<mediaSequenceNumber, playlist, playlistLocker,
                   mp3FileListLocker, tickPc, tickCur, tickNext, tickData,
                   outputBufferState, lastReset, agedOut>>
    /\ UNCHANGED notOut

\* makePlaylist lines 142-158, called for a new segment
NewSegmentPublish ==
    /\ ctlPc = "newPublish"
    /\ playlistLocker = "free"
    /\ playlist' = ctlData.bytes
    /\ ctlPc' = "idle"
    /\ ctlData' = NoData
    /\ UNCHANGED <<mp3FileList, mediaSequenceNumber, playlistLocker,
                   mp3FileListLocker, tickPc, tickCur, tickNext, tickData,
                   outputBufferState, disk, mp3Handle, nextFile, lastReset, orphans, agedOut>>
    /\ UNCHANGED notOut

\* audio-process.go lines 365-366: the segmenter sends a Reset, line 296 takes it
SegmenterReset ==
    /\ ctlPc = "idle"
    /\ ctlPc' = "resetDelete"
    /\ UNCHANGED <<mp3FileList, mediaSequenceNumber, playlist, playlistLocker,
                   mp3FileListLocker, tickPc, tickCur, tickNext, tickData, ctlData,
                   outputBufferState, disk, mp3Handle, nextFile, lastReset, orphans, agedOut>>
    /\ UNCHANGED notOut

\* Line 307: the files os.Remove deletes, out of those it is able to delete
ResetRemoved(list, deletable) == Names(list) \cap deletable \cap disk

\* Every element taken off the list, deleted or not
ResetUnlistedAll(list, gone) == Names(list)

\* Lines 307-310: the elements taken off the list, given the files deleted
ResetUnlisted(list, gone) == gone

RECURSIVE Without(_, _)
Without(l, gone) ==
    IF l = <<>> THEN <<>>
    ELSE IF Head(l).fileName \in gone THEN Without(Tail(l), gone)
         ELSE <<Head(l)>> \o Without(Tail(l), gone)

\* Lines 300-312: under the list mutex, delete every file that can be deleted
ResetDelete ==
    /\ ctlPc = "resetDelete"
    /\ mp3FileListLocker = "free"
    /\ \E deletable \in SUBSET Names(mp3FileList) :
         LET gone == ResetRemoved(mp3FileList, deletable)
         IN /\ mp3FileList' = Without(mp3FileList, ResetUnlisted(mp3FileList, gone))
            /\ disk' = disk \ gone
            /\ lastReset' = [deleted |-> gone, kept |-> Names(mp3FileList) \ gone]
    /\ ctlPc' = "resetZero"
    /\ UNCHANGED <<mediaSequenceNumber, playlist, playlistLocker,
                   mp3FileListLocker, tickPc, tickCur, tickNext, tickData, ctlData,
                   outputBufferState, mp3Handle, nextFile, orphans, agedOut>>
    /\ UNCHANGED notOut

\* A sequence number that is left as it was
StaleSequence == mediaSequenceNumber

\* Line 313
ResetSequence == 0

\* Lines 313-314
ResetZero ==
    /\ ctlPc = "resetZero"
    /\ mediaSequenceNumber' = ResetSequence
    /\ playlist' = NilPlaylist
    /\ agedOut' = 0
    /\ ctlPc' = "resetBuild"
    /\ UNCHANGED <<mp3FileList, playlistLocker, mp3FileListLocker, tickPc,
                   tickCur, tickNext, tickData, ctlData, outputBufferState, disk,
                   mp3Handle, nextFile, lastReset, orphans>>
    /\ UNCHANGED notOut

\* Line 315, makePlaylist lines 115-140
ResetBuild ==
    /\ ctlPc = "resetBuild"
    /\ ctlData' = MakePlaylistData(mp3FileList, mediaSequenceNumber)
    /\ ctlPc' = "resetPublish"
    /\ UNCHANGED <<mp3FileList, mediaSequenceNumber, playlist, playlistLocker,
                   mp3FileListLocker, tickPc, tickCur, tickNext, tickData,
                   outputBufferState, disk, mp3Handle, nextFile, lastReset, orphans, agedOut>>
    /\ UNCHANGED notOut

\* Line 315, makePlaylist lines 142-158
ResetPublish ==
    /\ ctlPc = "resetPublish"
    /\ playlistLocker = "free"
    /\ playlist' = ctlData.bytes
    /\ ctlPc' = "idle"
    /\ ctlData' = NoData
    /\ UNCHANGED <<mp3FileList, mediaSequenceNumber, playlistLocker,
                   mp3FileListLocker, tickPc, tickCur, tickNext, tickData,
                   outputBufferState, disk, mp3Handle, nextFile, lastReset, orphans, agedOut>>
    /\ UNCHANGED notOut

\* streamHandler lines 189-192: a playlist request holds the playlist mutex
HttpPlaylistBegin ==
    /\ playlistLocker = "free"
    /\ playlistLocker' = "http"
    /\ UNCHANGED <<mp3FileList, mediaSequenceNumber, playlist,
                   mp3FileListLocker, tickPc, tickCur, tickNext, tickData, ctlPc,
                   ctlData, outputBufferState, disk, mp3Handle, nextFile,
                   lastReset, orphans, agedOut>>
    /\ UNCHANGED notOut

HttpPlaylistEnd ==
    /\ playlistLocker = "http"
    /\ playlistLocker' = "free"
    /\ UNCHANGED <<mp3FileList, mediaSequenceNumber, playlist,
                   mp3FileListLocker, tickPc, tickCur, tickNext, tickData, ctlPc,
                   ctlData, outputBufferState, disk, mp3Handle, nextFile,
                   lastReset, orphans, agedOut>>
    /\ UNCHANGED notOut

\* time.Now() moves on by a second
Older(e) == [e EXCEPT !.age = IF e.age > mp3RemovableAge THEN e.age ELSE e.age + 1]

AdvanceTime ==
    /\ mp3FileList' = [i \in 1..Len(mp3FileList) |-> Older(mp3FileList[i])]
    /\ UNCHANGED <<mediaSequenceNumber, playlist, playlistLocker,
                   mp3FileListLocker, tickPc, tickCur, tickNext, tickData, ctlPc,
                   ctlData, outputBufferState, disk, mp3Handle, nextFile,
                   lastReset, orphans, agedOut>>
    /\ UNCHANGED notOut

NextOut ==
    \/ TickStart
    \/ TickAge
    \/ TickPublish
    \/ TickSend
    \/ TickRemove
    \/ SegmenterCloseSegment
    \/ NewSegmentPublish
    \/ SegmenterReset
    \/ ResetDelete
    \/ ResetZero
    \/ ResetBuild
    \/ ResetPublish
    \/ HttpPlaylistBegin
    \/ HttpPlaylistEnd
    \/ AdvanceTime

-----------------------------------------------------------------------------
(* The HTTP handlers: homeHandler and streamHandler, audio-out.go *)

PLAYLIST_EXTENSION == ".m3u8"

SEGMENT_EXTENSION == ".mp3"

HeaderNames ==
    {"Access-Control-Allow-Origin", "Access-Control-Allow-Methods",
     "Access-Control-Allow-Headers", "Access-Control-Max-Age",
     "Content-Type", "Location", "cache-control", "expires", "pragma"}

\* A header with nothing set
NoHeader == [n \in HeaderNames |-> ""]

\* out.Header().Set(name, value)
Set(header, name, value) == [header EXCEPT ![name] = value]

\* The requests: route is the pattern of the mux that matches, "/" or the
\* live directory; exists tells whether the path names a file
Requests ==
    [method : {"GET", "HEAD", "OPTIONS"}, route : {"home", "stream"},
     ext : {PLAYLIST_EXTENSION, SEGMENT_EXTENSION, ".html"}, exists : BOOLEAN]

NoRequest == [method |-> "", route |-> "", ext |-> "", exists |-> FALSE]

NoResponse == [written |-> FALSE, status |-> 0, header |-> NoHeader]

InitHttp ==
    /\ httpRequest = NoRequest
    /\ httpHeader = NoHeader
    /\ httpResponse = NoResponse
    /\ httpPc = "idle"

\* out.WriteHeader, and any call that writes the response: the header is sent
\* as it is now, and only the first call counts
WriteHeader(response, header, status) ==
    IF response.written THEN response
    ELSE [written |-> TRUE, status |-> status, header |-> header]

\* Lines 73-78
AddCrossDomainToResponse(header) ==
    Set(Set(Set(Set(header,
        "Access-Control-Allow-Origin", "*"),
        "Access-Control-Allow-Methods", "GET, POST, OPTIONS"),
        "Access-Control-Allow-Headers", "Content-Type, X-Requested-With"),
        "Access-Control-Max-Age", "86400")

\* stopCache, lines 173-178
StopCache(header) ==
    Set(Set(Set(Set(header,
        "cache-control", "no-cache, no-store, must-revalidate, max-age=0"),
        "expires", "-1"),
        "expires", "Tue, 01 Jan 1980 1:00:00 GMT"),
        "pragma", "no-cache")

\* http.ServeFile and http.ServeContent: the content type is worked out from
\* the name when the handler has not set it, a missing file is answered
\* with 404 as plain text
ServeHeader(header, request, found) ==
    IF ~found THEN Set(header, "Content-Type", "text/plain; charset=utf-8")
    ELSE IF header["Content-Type"] # "" THEN header
    ELSE Set(header, "Content-Type",
             IF request.ext = SEGMENT_EXTENSION THEN "audio/mpeg" ELSE "text/html")

\* A request arrives and the mux calls the handler of its pattern
HttpRequestArrives ==
    /\ httpPc = "idle"
    /\ httpRequest' \in Requests
    /\ httpHeader' = NoHeader
    /\ httpResponse' = NoResponse
    /\ httpPc' = "filter"
    /\ UNCHANGED <<pubOnly, fileVars, procOnly, gapOnly, streamVars, fillVars,
                   decodeVars, makeVars, orderVars, taskVars, connVars, udpVars>>

\* filterCrossDomainRequest, lines 83-94, and lines 324-325 and 330-331
HttpFilterCrossDomain ==
    /\ httpPc = "filter"
    /\ httpHeader' = AddCrossDomainToResponse(httpHeader)
    /\ IF httpRequest.method = "OPTIONS"
       THEN /\ httpResponse' = WriteHeader(httpResponse, httpHeader', 200)
            /\ httpPc' = "done"
       ELSE /\ httpPc' = IF httpRequest.route = "home" THEN "home" ELSE "stream"
            /\ UNCHANGED httpResponse
    /\ UNCHANGED httpRequest
    /\ UNCHANGED <<pubOnly, fileVars, procOnly, gapOnly, streamVars, fillVars,
                   decodeVars, makeVars, orderVars, taskVars, connVars, udpVars>>

\* homeHandler, lines 164-170
HomeHandler ==
    /\ httpPc = "home"
    /\ LET stopped == StopCache(httpHeader)
           redirect == Set(Set(stopped, "Location", "liveDir"),
                           "Content-Type", "text/html; charset=utf-8")
       IN /\ httpHeader' = redirect
          /\ httpResponse' = WriteHeader(httpResponse, redirect, 302)
    /\ httpPc' = "done"
    /\ UNCHANGED httpRequest
    /\ UNCHANGED <<pubOnly, fileVars, procOnly, gapOnly, streamVars, fillVars,
                   decodeVars, makeVars, orderVars, taskVars, connVars, udpVars>>

\* streamHandler, lines 182-207: the playlist, the segment or the file is served
StreamServe ==
    /\ httpPc = "stream"
    /\ LET playlistAsked == httpRequest.ext = PLAYLIST_EXTENSION
           typed == IF playlistAsked
                    THEN Set(httpHeader, "Content-Type", "application/x-mpegurl")
                    ELSE httpHeader
           found == playlistAsked \/ httpRequest.exists
           served == ServeHeader(typed, httpRequest, found)
       IN /\ httpResponse' =
                WriteHeader(httpResponse, served, IF found THEN 200 ELSE 404)
          /\ httpHeader' = IF httpRequest.ext = SEGMENT_EXTENSION
                           THEN Set(served, "Content-Type", "audio/mpeg")
                           ELSE served
    /\ httpPc' = "stopCache"
    /\ UNCHANGED httpRequest
    /\ UNCHANGED <<pubOnly, fileVars, procOnly, gapOnly, streamVars, fillVars,
                   decodeVars, makeVars, orderVars, taskVars, connVars, udpVars>>

\* streamHandler, lines 209-210
StreamStopCache ==
    /\ httpPc = "stopCache"
    /\ httpHeader' = StopCache(httpHeader)
    /\ httpPc' = "done"
    /\ UNCHANGED <<httpRequest, httpResponse>>
    /\ UNCHANGED <<pubOnly, fileVars, procOnly, gapOnly, streamVars, fillVars,
                   decodeVars, makeVars, orderVars, taskVars, connVars, udpVars>>

\* The handler returns; a response not written yet is written with what the
\* header holds
HttpReturn ==
    /\ httpPc = "done"
    /\ httpResponse' = WriteHeader(httpResponse, httpHeader, 200)
    /\ httpPc' = "idle"
    /\ UNCHANGED <<httpRequest, httpHeader>>
    /\ UNCHANGED <<pubOnly, fileVars, procOnly, gapOnly, streamVars, fillVars,
                   decodeVars, makeVars, orderVars, taskVars, connVars, udpVars>>

NextHttp ==
    \/ HttpRequestArrives
    \/ HttpFilterCrossDomain
    \/ HomeHandler
    \/ StreamServe
    \/ StreamStopCache
    \/ HttpReturn

-----------------------------------------------------------------------------
(* The segmenter: operateAudioProcessing, audio-process.go *)

\* line 311: an exact number of MP3 frames
SamplesPerSegment == (mp3FileSamples \div mp3SamplesPerFrame) * mp3SamplesPerFrame

\* A datagram as handleUrtpDatagram and handleUrtpStream hand it over; Audio
\* is the number of samples decoded, or NilAudio when nothing was decoded
NilAudio == 0 - 1

\* The datagrams the segmenter is sent
Datagrams ==
    { [SequenceNumber |-> 0, Audio |-> SAMPLES_PER_BLOCK],
      [SequenceNumber |-> 2, Audio |-> SAMPLES_PER_BLOCK \div 2] }

NoDatagram == [SequenceNumber |-> 0 - 1, Audio |-> NilAudio]

NoWrites ==
    [hadPrevious |-> FALSE, jump |-> 0, gapFill |-> 0, audio |-> 0, shortFill |-> 0,
     panic |-> FALSE]

NothingSent == [type |-> "none", fileName |-> 0, duration |-> 0, samples |-> 0,
                closed |-> FALSE]

\* No OutputBufferState has been handled
NoSilence ==
    [received |-> FALSE, Buffered |-> 0, BufferSize |-> 0, open |-> FALSE, injected |-> 0]

InitProc ==
    /\ newDatagramList = <<>>
    /\ processedDatagramList = <<>>
    /\ pcmAudioLen = 0
    /\ oosAge = 0
    /\ mp3SamplesToEncode = SamplesPerSegment
    /\ samplesEncoded = 0
    /\ mp3Offset = 0
    /\ mp3Duration = 0
    /\ minOutputBufferedAudio = MIN_OUTPUT_BUFFERED_AUDIO
    /\ mp3Audio = 0
    /\ procPc = "idle"
    /\ mediaSent = NothingSent
    /\ fileError = FALSE
    /\ silence = NoSilence
    /\ crashed = FALSE

\* Line 166: the gap is small enough to be filled
Fillable(gap) == gap < (SAMPLING_FREQUENCY * MAX_GAP_FILL_MILLISECONDS) \div 1000

\* handleGap, lines 162-186: the number of fill samples written for a gap
HandleGap(gap) == IF Fillable(gap) THEN gap ELSE 0

\* Line 169: len(*previousDatagram.Audio) is evaluated for a previous
\* datagram whose Audio is nil, a nil pointer dereference
HandleGapPanics(gap, previousDatagram) ==
    /\ Fillable(gap)
    /\ previousDatagram # NoDatagram
    /\ previousDatagram.Audio = NilAudio

\* Line 201: uint16 subtraction of the sequence numbers, widened to int
SequenceJump(datagram, previousDatagram) ==
    (datagram.SequenceNumber - previousDatagram.SequenceNumber + 65536) % 65536

\* Line 201: the gap handed to handleGap for a jump in the sequence numbers
JumpGap(jump, audio) == jump * SAMPLES_PER_BLOCK

\* processDatagram, lines 189-223: the samples written to pcmAudio, in order:
\* fill for the jump, the audio of the datagram, fill for a short block
ProcessDatagram(datagram, previousDatagram) ==
    LET hadPrevious == previousDatagram # NoDatagram
        jump == IF hadPrevious THEN SequenceJump(datagram, previousDatagram) ELSE 0
        skipped == hadPrevious /\ datagram.SequenceNumber
                                     # (previousDatagram.SequenceNumber + 1) % 65536
        gapPanic == skipped /\ HandleGapPanics(JumpGap(jump, 0), previousDatagram)
        audio == IF datagram.Audio # NilAudio /\ ~gapPanic THEN datagram.Audio ELSE 0
        short == IF datagram.Audio # NilAudio
                 THEN SAMPLES_PER_BLOCK - datagram.Audio
                 ELSE SAMPLES_PER_BLOCK
        shortPanic == ~gapPanic /\ short > 0 /\ HandleGapPanics(short, previousDatagram)
    IN [hadPrevious |-> hadPrevious,
        jump |-> jump,
        gapFill |-> IF skipped /\ ~gapPanic THEN HandleGap(JumpGap(jump, audio)) ELSE 0,
        audio |-> audio,
        shortFill |-> IF short > 0 /\ ~gapPanic /\ ~shortPanic THEN HandleGap(short) ELSE 0,
        panic |-> gapPanic \/ shortPanic]

WritesSamples(w) == w.gapFill + w.audio + w.shortFill

FrontDatagram(l) == IF l = <<>> THEN NoDatagram ELSE Head(l)

\* Lines 330-340: every new datagram is processed against the front of the
\* processed list and pushed to its front. The result gives the processed
\* list, the bytes added to pcmAudio and the writes of the last datagram.
RECURSIVE ProcessAll(_, _, _, _)
ProcessAll(new, processed, bytes, writes) ==
    IF new = <<>> \/ writes.panic
    THEN [processed |-> processed, bytes |-> bytes, writes |-> writes]
    ELSE LET w == ProcessDatagram(Head(new), FrontDatagram(processed))
         IN ProcessAll(Tail(new), <<Head(new)>> \o processed,
                       bytes + WritesSamples(w) * URTP_SAMPLE_SIZE, w)

\* Lines 344-355: the processed list keeps its NUM_PROCESSED_DATAGRAMS newest
TrimProcessed(l) ==
    IF Len(l) > NUM_PROCESSED_DATAGRAMS THEN SubSeq(l, 1, NUM_PROCESSED_DATAGRAMS) ELSE l

\* Line 360, met one block too early
OosReached(age) == age >= maxOosAge

\* Line 360: the out of service age is too large
OosExceeded(age) == age > maxOosAge

\* Lines 417-423: a datagram arrives on the channel
DatagramArrives ==
    /\ ~crashed
    /\ Len(newDatagramList) < MaxNewDatagrams
    /\ pcmAudioLen <= MaxPcmBytes
    /\ \E datagram \in Datagrams :
         newDatagramList' = Append(newDatagramList, datagram)
    /\ UNCHANGED <<processedDatagramList, pcmAudioLen, oosAge, mp3SamplesToEncode,
                   samplesEncoded, mp3Offset, mp3Duration, minOutputBufferedAudio,
                   mp3Audio, procPc, mediaSent, fileError, silence, crashed>>
    /\ UNCHANGED <<fileVars, notProc>>

\* The OutputBufferState messages the publisher sends: Buffered and
\* BufferSize in milliseconds
OutputBufferStates ==
    [Buffered : {0, 700, 2 * SegmentDurationMs}, BufferSize : {playlistLengthSeconds * 1000}]

\* Line 432, comparing with the adjusted minimum
TooLowAdjusted(message, minimum) == message.Buffered < minimum

\* Line 432: the buffered audio is compared with MIN_OUTPUT_BUFFERED_AUDIO, not
\* with minOutputBufferedAudio
TooLow(message, minimum) == message.Buffered < MIN_OUTPUT_BUFFERED_AUDIO

\* Lines 426-440: the publisher reports the state of its buffer
OutputBufferStateArrives ==
    /\ ~crashed
    /\ pcmAudioLen <= MaxPcmBytes
    /\ \E message \in OutputBufferStates :
         /\ minOutputBufferedAudio' =
                IF minOutputBufferedAudio > message.BufferSize \div 2
                THEN message.BufferSize \div 2
                ELSE minOutputBufferedAudio
         /\ LET inject == TooLow(message, minOutputBufferedAudio') /\ mp3Handle # 0
            IN /\ pcmAudioLen' =
                     IF inject
                     THEN pcmAudioLen + SamplesPerSegment * URTP_SAMPLE_SIZE
                     ELSE pcmAudioLen
               /\ silence' = [received |-> TRUE,
                              Buffered |-> message.Buffered,
                              BufferSize |-> message.BufferSize,
                              open |-> mp3Handle # 0,
                              injected |-> IF inject THEN SamplesPerSegment ELSE 0]
    /\ UNCHANGED <<newDatagramList, processedDatagramList, oosAge, mp3SamplesToEncode,
                   samplesEncoded, mp3Offset, mp3Duration,
                   mp3Audio, procPc, mediaSent, fileError, crashed>>
    /\ UNCHANGED <<fileVars, notProc>>

\* Lines 328-368: the ticker fires; the new datagrams are processed, or the
\* out of service age grows and, when too large, the stream is reset
TickDrain ==
    /\ ~crashed
    /\ procPc = "idle"
    /\ procPc' = "encode"
    /\ IF newDatagramList # <<>>
       THEN LET r == ProcessAll(newDatagramList, processedDatagramList, 0, NoWrites)
            IN /\ pcmAudioLen' = pcmAudioLen + r.bytes
               /\ processedDatagramList' = TrimProcessed(r.processed)
               /\ newDatagramList' = <<>>
               /\ crashed' = r.writes.panic
               /\ oosAge' = 0
               /\ mediaSent' = NothingSent
               /\ UNCHANGED <<mp3Offset, samplesEncoded, mp3SamplesToEncode>>
       ELSE /\ IF OosExceeded(oosAge + BLOCK_DURATION_MS)
               THEN /\ oosAge' = 0
                    /\ mp3Offset' = 0
                    /\ samplesEncoded' = 0
                    /\ mp3SamplesToEncode' = SamplesPerSegment
                    /\ mediaSent' = [NothingSent EXCEPT !.type = "reset"]
               ELSE /\ oosAge' = oosAge + BLOCK_DURATION_MS
                    /\ mediaSent' = NothingSent
                    /\ UNCHANGED <<mp3Offset, samplesEncoded, mp3SamplesToEncode>>
            /\ UNCHANGED <<newDatagramList, processedDatagramList, pcmAudioLen,
                           crashed>>
    /\ silence' = NoSilence
    /\ UNCHANGED <<mp3Duration, minOutputBufferedAudio, mp3Audio, fileError>>
    /\ UNCHANGED <<fileVars, notProc>>

Min(a, b) == IF a < b THEN a ELSE b

\* encodeOutput line 232: the bytes pcmAudio.Read returns for numSamples
BytesRead(numSamples) == Min(pcmAudioLen, numSamples * URTP_SAMPLE_SIZE)

\* mp3Writer.Write, line 236: the bytes the encoder reports as consumed
Mp3WriterWrite(bytes) == bytes

\* encodeOutput, lines 226-250: the samples encoded
EncodeOutput(numSamples) == Mp3WriterWrite(BytesRead(numSamples)) \div URTP_SAMPLE_SIZE

\* Line 377, in microseconds
Mp3DurationOf(samples) == (samples * 1000000) \div SAMPLING_FREQUENCY

\* Lines 370-408: the tick encodes what pcmAudio holds, up to the end of the
\* segment, and at the end of the segment closes the file, announces it and
\* opens the next
TickEncode ==
    /\ ~crashed
    /\ procPc = "encode"
    /\ procPc' = "idle"
    /\ LET samples == EncodeOutput(mp3SamplesToEncode)
           fed == mp3Audio + samples
           encoded == samplesEncoded + samples
           duration == IF mp3Handle # 0 THEN Mp3DurationOf(encoded) ELSE mp3Duration
       IN /\ fed <= MaxMp3AudioSamples
          /\ pcmAudioLen' = pcmAudioLen - BytesRead(mp3SamplesToEncode)
          /\ IF mp3SamplesToEncode - samples <= 0
             THEN /\ nextFile <= MaxSegments + 1
                  \* closed: what mp3Handle.Close() returned, which line 386 drops
                  /\ \E tagged \in BOOLEAN, written \in BOOLEAN, opened \in BOOLEAN,
                        closed \in BOOLEAN :
                       /\ IF mp3Handle # 0 /\ tagged /\ written
                          THEN /\ mediaSent' = [type |-> "segment", fileName |-> mp3Handle,
                                                duration |-> duration, samples |-> fed,
                                                closed |-> closed]
                               /\ mp3Audio' = 0
                               /\ UNCHANGED orphans
                          ELSE /\ mediaSent' = NothingSent
                               /\ mp3Audio' = IF mp3Handle # 0 /\ tagged THEN 0 ELSE fed
                               /\ orphans' = IF mp3Handle # 0
                                             THEN orphans \cup {mp3Handle}
                                             ELSE orphans
                       /\ fileError' = (fileError \/ mp3Handle = 0 \/ ~tagged
                                        \/ ~written \/ ~opened)
                       /\ OpenMp3File(opened)
                  /\ mp3Duration' = duration
                  /\ mp3Offset' = mp3Offset + duration
                  /\ samplesEncoded' = 0
                  /\ mp3SamplesToEncode' = SamplesPerSegment
             ELSE /\ samplesEncoded' = encoded
                  /\ mp3SamplesToEncode' = mp3SamplesToEncode - samples
                  /\ mp3Audio' = fed
                  /\ mediaSent' = NothingSent
                  /\ UNCHANGED <<mp3Duration, mp3Offset, fileVars, fileError>>
    /\ UNCHANGED <<newDatagramList, processedDatagramList, oosAge,
                   minOutputBufferedAudio, silence, crashed>>
    /\ UNCHANGED notProc

NextProc ==
    \/ DatagramArrives
    \/ OutputBufferStateArrives
    \/ TickDrain
    \/ TickEncode

-----------------------------------------------------------------------------
(* The timeline writer: processDatagram, audio-process.go *)

\* No record has been processed yet
NoTimeline == [regular |-> TRUE, records |-> 0, first |-> 0, last |-> 0, total |-> 0]

InitGap ==
    /\ pcmWrites = NoWrites
    /\ timeline = NoTimeline

\* The run of records processed so far, with one more: it is regular as long
\* as every record is full, the sequence numbers increase and fewer than 25
\* blocks are missing between two records; total counts the samples written
Extend(t, datagram, w) ==
    IF t.records = 0
    THEN IF datagram.Audio = SAMPLES_PER_BLOCK
         THEN [regular |-> TRUE, records |-> 1, first |-> datagram.SequenceNumber,
               last |-> datagram.SequenceNumber, total |-> WritesSamples(w)]
         ELSE [NoTimeline EXCEPT !.regular = FALSE, !.records = 1]
    ELSE IF /\ t.regular
            /\ datagram.Audio = SAMPLES_PER_BLOCK
            /\ datagram.SequenceNumber > t.last
            /\ datagram.SequenceNumber - t.last - 1 < 25
         THEN [t EXCEPT !.records = 2, !.last = datagram.SequenceNumber,
                        !.total = t.total + WritesSamples(w)]
         ELSE [NoTimeline EXCEPT !.regular = FALSE, !.records = 1]

\* The datagrams processDatagram is given
GapDatagrams ==
    [SequenceNumber : 0..MaxJump \cup {65535},
     Audio : {NilAudio, 0, SAMPLES_PER_BLOCK \div 2, SAMPLES_PER_BLOCK}]

\* Lines 334-337: a datagram is processed against the front of the processed
\* list and pushed to its front
TimelineProcess ==
    /\ ~crashed
    /\ \E datagram \in GapDatagrams :
         LET w == ProcessDatagram(datagram, FrontDatagram(processedDatagramList))
         IN /\ pcmWrites' = w
            /\ crashed' = w.panic
            /\ timeline' = Extend(timeline, datagram, w)
            /\ processedDatagramList' =
                   IF w.panic THEN processedDatagramList
                   ELSE TrimProcessed(<<datagram>> \o processedDatagramList)
    /\ UNCHANGED <<newDatagramList, pcmAudioLen, oosAge, mp3SamplesToEncode,
                   samplesEncoded, mp3Offset, mp3Duration, minOutputBufferedAudio,
                   mp3Audio, procPc, mediaSent, fileError, silence>>
    /\ UNCHANGED <<pubOnly, fileVars, streamVars, fillVars, decodeVars, makeVars, httpVars, orderVars, taskVars, connVars, udpVars>>

NextGap == TimelineProcess

-----------------------------------------------------------------------------
(* The segmenter with a single record and no further input *)

\* Lines 417-423: the only record of the run arrives, a full block of PCM
FirstDatagramArrives ==
    /\ ~crashed
    /\ newDatagramList = <<>>
    /\ processedDatagramList = <<>>
    /\ \E datagram \in {d \in Datagrams : d.Audio = SAMPLES_PER_BLOCK} :
         newDatagramList' = Append(newDatagramList, datagram)
    /\ UNCHANGED <<processedDatagramList, pcmAudioLen, oosAge, mp3SamplesToEncode,
                   samplesEncoded, mp3Offset, mp3Duration, minOutputBufferedAudio,
                   mp3Audio, procPc, mediaSent, fileError, silence, crashed>>
    /\ UNCHANGED <<fileVars, notProc>>

NextQuiet ==
    \/ FirstDatagramArrives
    \/ TickDrain
    \/ TickEncode

-----------------------------------------------------------------------------
(* The way of a datagram from the channel to the timeline, audio-process.go *)

InitOrder ==
    /\ accepted = <<>>
    /\ applied = <<>>
    /\ consumerMsg = NoDatagram
    /\ newDatagramListLocker = "free"

\* The sequence number of the datagram accepted last
LastAccepted == IF accepted = <<>> THEN 0 ELSE accepted[Len(accepted)].SequenceNumber

\* The datagrams the ingest tasks send next: consecutive or with one block
\* missing, with audio or with none
OrderDatagrams ==
    [SequenceNumber : {LastAccepted + 1, LastAccepted + 2},
     Audio : {NilAudio, SAMPLES_PER_BLOCK}]

\* container/list PushFront, line 338
PushFront(l, message) == <<message>> \o l

\* A new list that takes the newest datagram at its front
PutInFront(l, message) == <<message>> \o l

\* container/list PushBack, line 421
PushBack(l, message) == Append(l, message)

\* Lines 414-419 and audio-in.go line 248: an ingest task hands a datagram
\* over the channel to the channel goroutine
ChannelReceive ==
    /\ ~crashed
    /\ consumerMsg = NoDatagram
    /\ Len(accepted) < MaxAccepted
    /\ \E datagram \in OrderDatagrams :
         /\ consumerMsg' = datagram
         /\ accepted' = Append(accepted, datagram)
    /\ UNCHANGED <<applied, newDatagramListLocker>>
    /\ UNCHANGED <<procOnly, fileVars, pubOnly, gapOnly, streamVars, fillVars,
                   decodeVars, makeVars, httpVars, taskVars, connVars,
                   udpVars>>

\* Lines 420-422: the datagram is put at the back of the new list, under
\* the mutex of the list
ConsumerPushBack ==
    /\ ~crashed
    /\ consumerMsg # NoDatagram
    /\ newDatagramListLocker = "free"
    /\ newDatagramList' = PushBack(newDatagramList, consumerMsg)
    /\ consumerMsg' = NoDatagram
    /\ UNCHANGED <<accepted, applied, newDatagramListLocker>>
    /\ UNCHANGED <<processedDatagramList, pcmAudioLen, oosAge, mp3SamplesToEncode,
                   samplesEncoded, mp3Offset, mp3Duration, minOutputBufferedAudio,
                   mp3Audio, procPc, mediaSent, fileError, silence, crashed>>
    /\ UNCHANGED <<fileVars, pubOnly, gapOnly, streamVars, fillVars,
                   decodeVars, makeVars, httpVars, taskVars, connVars,
                   udpVars>>

\* Lines 324-330: the ticker fires and the tick takes the mutex of the list;
\* ticks with nothing to do are followed for MaxQuiet blocks
TickLock ==
    /\ ~crashed
    /\ procPc = "idle"
    /\ newDatagramListLocker = "free"
    /\ newDatagramList # <<>> \/ oosAge < MaxQuiet * BLOCK_DURATION_MS
    /\ newDatagramListLocker' = "tick"
    /\ procPc' = "drain"
    /\ UNCHANGED <<accepted, applied, consumerMsg>>
    /\ UNCHANGED <<newDatagramList, processedDatagramList, pcmAudioLen, oosAge,
                   mp3SamplesToEncode, samplesEncoded, mp3Offset, mp3Duration,
                   minOutputBufferedAudio, mp3Audio, mediaSent, fileError, silence,
                   crashed>>
    /\ UNCHANGED <<fileVars, pubOnly, gapOnly, streamVars, fillVars,
                   decodeVars, makeVars, httpVars, taskVars, connVars,
                   udpVars>>

\* Lines 330-340: the datagram at the front of the new list is processed and
\* moved to the front of the processed list
TickProcessFront ==
    /\ ~crashed
    /\ procPc \in {"drain", "drained"}
    /\ newDatagramList # <<>>
    /\ LET datagram == Head(newDatagramList)
           w == ProcessDatagram(datagram, FrontDatagram(processedDatagramList))
       IN /\ pcmWrites' = w
          /\ crashed' = w.panic
          /\ IF w.panic
             THEN UNCHANGED <<newDatagramList, processedDatagramList, pcmAudioLen,
                              applied, procPc>>
             ELSE /\ pcmAudioLen' = pcmAudioLen + WritesSamples(w) * URTP_SAMPLE_SIZE
                  /\ processedDatagramList' = PushFront(processedDatagramList, datagram)
                  /\ newDatagramList' = Tail(newDatagramList)
                  /\ applied' = Append(applied, datagram)
                  /\ procPc' = "drained"
    /\ UNCHANGED <<accepted, consumerMsg, newDatagramListLocker, timeline>>
    /\ UNCHANGED <<oosAge, mp3SamplesToEncode, samplesEncoded, mp3Offset, mp3Duration,
                   minOutputBufferedAudio, mp3Audio, mediaSent, fileError, silence>>
    /\ UNCHANGED <<fileVars, pubOnly, streamVars, fillVars,
                   decodeVars, makeVars, httpVars, taskVars, connVars,
                   udpVars>>

\* Lines 341-368: the new list is empty, the mutex is released; the processed
\* list is trimmed, or the out of service age grows
TickUnlock ==
    /\ ~crashed
    /\ procPc \in {"drain", "drained"}
    /\ newDatagramList = <<>>
    /\ newDatagramListLocker' = "free"
    /\ procPc' = "encode"
    /\ IF procPc = "drained"
       THEN /\ oosAge' = 0
            /\ processedDatagramList' = TrimProcessed(processedDatagramList)
            /\ mediaSent' = NothingSent
            /\ UNCHANGED <<mp3Offset, samplesEncoded, mp3SamplesToEncode>>
       ELSE /\ IF OosExceeded(oosAge + BLOCK_DURATION_MS)
               THEN /\ oosAge' = 0
                    /\ mp3Offset' = 0
                    /\ samplesEncoded' = 0
                    /\ mp3SamplesToEncode' = SamplesPerSegment
                    /\ mediaSent' = [NothingSent EXCEPT !.type = "reset"]
               ELSE /\ oosAge' = oosAge + BLOCK_DURATION_MS
                    /\ mediaSent' = NothingSent
                    /\ UNCHANGED <<mp3Offset, samplesEncoded, mp3SamplesToEncode>>
            /\ UNCHANGED processedDatagramList
    /\ UNCHANGED <<accepted, applied, consumerMsg>>
    /\ UNCHANGED <<newDatagramList, pcmAudioLen, mp3Duration, minOutputBufferedAudio,
                   mp3Audio, fileError, silence, crashed>>
    /\ UNCHANGED <<fileVars, pubOnly, gapOnly, streamVars, fillVars,
                   decodeVars, makeVars, httpVars, taskVars, connVars,
                   udpVars>>

NextOrder ==
    \/ ChannelReceive
    \/ ConsumerPushBack
    \/ TickLock
    \/ TickProcessFront
    \/ TickUnlock
    \/ TickEncode

-----------------------------------------------------------------------------
(* The goroutines of the server with the two channels and the three mutexes
   that connect them; what the goroutines compute is left open, and every
   decision that depends on it is taken either way *)

\* The goroutines that send records: udpServer and the goroutine of the
\* TCP connection
Ingest == {"udp", "tcp"}

InitTasks ==
    task = [udp |-> "idle", tcp |-> "idle", segTick |-> "idle", segChannel |-> "recv",
            pubTick |-> "idle", pubControl |-> "recv", http |-> "idle"]

\* The tick of the segmenter keeps the mutex of the new list to its end
SegTickHoldsToEnd(p) == p # "idle"

\* audio-process.go lines 328-341: where the tick of the segmenter holds
\* newDatagramListLocker
SegTickHolds(p) == p = "drain"

\* The tick of the publisher keeps the mutex of the list between its passes
PubTickHoldsBetweenPasses(p) == TRUE

\* audio-out.go lines 248-281: where the tick of the publisher holds
\* mp3FileListLocker
PubTickHolds(p) == p \in {"age", "publish", "send", "remove"}

\* audio-out.go lines 189-192: a playlist request holds playlistLocker
HttpHolds(p) == p = "serving"

\* What the actions of the goroutines leave alone
notTasks == <<pubOnly, fileVars, gapOnly, streamVars, fillVars, decodeVars,
              makeVars, httpVars, orderVars, connVars, udpVars>>

\* All the variables of the segmenter but crashed
procButCrashed ==
    <<newDatagramList, processedDatagramList, pcmAudioLen, oosAge,
      mp3SamplesToEncode, samplesEncoded, mp3Offset, mp3Duration,
      minOutputBufferedAudio, mp3Audio, procPc, mediaSent, fileError, silence>>

\* audio-in.go line 248: an ingest goroutine has a record and sends it to
\* ProcessDatagramsChannel
IngestSends(t) ==
    /\ ~crashed
    /\ task[t] = "idle"
    /\ task' = [task EXCEPT ![t] = "send"]
    /\ UNCHANGED <<procOnly, notTasks>>

\* audio-process.go lines 414-419: the channel goroutine takes a record
ChannelTakes(t) ==
    /\ ~crashed
    /\ task[t] = "send"
    /\ task.segChannel = "recv"
    /\ task' = [task EXCEPT ![t] = "idle", !.segChannel = "push"]
    /\ UNCHANGED <<procOnly, notTasks>>

\* audio-process.go lines 420-422: it puts the record on the new list, under
\* the mutex of the list
ChannelQueues ==
    /\ ~crashed
    /\ task.segChannel = "push"
    /\ ~SegTickHolds(task.segTick)
    /\ task' = [task EXCEPT !.segChannel = "recv"]
    /\ UNCHANGED <<procOnly, notTasks>>

\* audio-out.go line 265 and audio-process.go lines 426-440: the channel
\* goroutine takes the OutputBufferState of the publisher's tick and handles it
ChannelTakesState ==
    /\ ~crashed
    /\ task.pubTick = "send"
    /\ task.segChannel = "recv"
    /\ task' = [task EXCEPT !.pubTick = "remove"]
    /\ UNCHANGED <<procOnly, notTasks>>

\* audio-process.go lines 324-328: the ticker fires, the new list is locked
SegTickBegins ==
    /\ ~crashed
    /\ task.segTick = "idle"
    /\ task' = [task EXCEPT !.segTick = "drain"]
    /\ UNCHANGED <<procOnly, notTasks>>

\* audio-process.go lines 330-368: the new list is drained, processDatagram
\* may panic; the mutex is released; with nothing processed for too long a
\* Reset is to be sent
SegTickDrains ==
    /\ ~crashed
    /\ task.segTick = "drain"
    /\ \E panic \in BOOLEAN, reset \in BOOLEAN :
         /\ crashed' = panic
         /\ task' = IF panic THEN task
                    ELSE [task EXCEPT !.segTick = IF reset THEN "sendReset" ELSE "encode"]
    /\ UNCHANGED <<procButCrashed, notTasks>>

\* audio-process.go line 365 and audio-out.go lines 287-296: the Reset is
\* taken by the control goroutine of the publisher
SegTickSendsReset ==
    /\ ~crashed
    /\ task.segTick = "sendReset"
    /\ task.pubControl = "recv"
    /\ task' = [task EXCEPT !.segTick = "encode", !.pubControl = "reset"]
    /\ UNCHANGED <<procOnly, notTasks>>

\* audio-process.go lines 370-387: the tick encodes; a segment that is
\* complete and written is to be announced
SegTickEncodes ==
    /\ ~crashed
    /\ task.segTick = "encode"
    /\ \E announce \in BOOLEAN :
         task' = [task EXCEPT !.segTick = IF announce THEN "sendSegment" ELSE "idle"]
    /\ UNCHANGED <<procOnly, notTasks>>

\* audio-process.go lines 388-404 and audio-out.go lines 287-293: the new
\* segment is taken by the control goroutine of the publisher
SegTickSendsSegment ==
    /\ ~crashed
    /\ task.segTick = "sendSegment"
    /\ task.pubControl = "recv"
    /\ task' = [task EXCEPT !.segTick = "idle", !.pubControl = "newSegment"]
    /\ UNCHANGED <<procOnly, notTasks>>

\* audio-out.go lines 293-294, makePlaylist lines 142-158: the segment is
\* appended and the playlist published, under the mutex of the playlist
ControlPublishes ==
    /\ ~crashed
    /\ task.pubControl \in {"newSegment", "resetBuild"}
    /\ ~HttpHolds(task.http)
    /\ task' = [task EXCEPT !.pubControl = "recv"]
    /\ UNCHANGED <<procOnly, notTasks>>

\* audio-out.go lines 300-314: the files are removed under the mutex of the list
ControlResets ==
    /\ ~crashed
    /\ task.pubControl = "reset"
    /\ ~PubTickHolds(task.pubTick)
    /\ task' = [task EXCEPT !.pubControl = "resetBuild"]
    /\ UNCHANGED <<procOnly, notTasks>>

\* audio-out.go lines 245-251: the ticker fires, the list is locked
PubTickBegins ==
    /\ ~crashed
    /\ task.pubTick = "idle"
    /\ task' = [task EXCEPT !.pubTick = "age"]
    /\ UNCHANGED <<procOnly, notTasks>>

\* audio-out.go lines 254-260: an element too old is retired and a playlist built
PubTickAges ==
    /\ ~crashed
    /\ task.pubTick = "age"
    /\ \E stale \in BOOLEAN :
         task' = [task EXCEPT !.pubTick = IF stale THEN "publish" ELSE "remove"]
    /\ UNCHANGED <<procOnly, notTasks>>

\* makePlaylist lines 142-158, called from the tick
PubTickPublishes ==
    /\ ~crashed
    /\ task.pubTick = "publish"
    /\ ~HttpHolds(task.http)
    /\ task' = [task EXCEPT !.pubTick = "send"]
    /\ UNCHANGED <<procOnly, notTasks>>

\* audio-out.go lines 267-280 and 250: the element is removed or kept, and
\* the pass goes on to the next one
PubTickRemoves ==
    /\ ~crashed
    /\ task.pubTick = "remove"
    /\ task' = [task EXCEPT !.pubTick = "age"]
    /\ UNCHANGED <<procOnly, notTasks>>

\* audio-out.go lines 267-281: the last element is removed or kept, and the
\* mutex of the list is released
PubTickEnds ==
    /\ ~crashed
    /\ task.pubTick = "remove"
    /\ task' = [task EXCEPT !.pubTick = "idle"]
    /\ UNCHANGED <<procOnly, notTasks>>

\* audio-out.go lines 189-191: a playlist request takes the mutex of the playlist
HttpServes ==
    /\ ~crashed
    /\ task.http = "idle"
    /\ task.pubControl \in {"recv", "newSegment", "reset", "resetBuild"}
    /\ task' = [task EXCEPT !.http = "serving"]
    /\ UNCHANGED <<procOnly, notTasks>>

\* audio-out.go line 192: the playlist has been written to the client
HttpDone ==
    /\ ~crashed
    /\ task.http = "serving"
    /\ task' = [task EXCEPT !.http = "idle"]
    /\ UNCHANGED <<procOnly, notTasks>>

NextTasks ==
    \/ \E t \in Ingest : IngestSends(t)
    \/ \E t \in Ingest : ChannelTakes(t)
    \/ ChannelQueues
    \/ ChannelTakesState
    \/ SegTickBegins
    \/ SegTickDrains
    \/ SegTickSendsReset
    \/ SegTickEncodes
    \/ SegTickSendsSegment
    \/ ControlPublishes
    \/ ControlResets
    \/ PubTickBegins
    \/ PubTickAges
    \/ PubTickPublishes
    \/ PubTickRemoves
    \/ PubTickEnds
    \/ HttpServes
    \/ HttpDone

\* The two goroutines of the segmenter are scheduled fairly, and a sender
\* that waits at the channel is served in its turn
SegmenterFair ==
    /\ \A t \in Ingest : SF_vars(ChannelTakes(t))
    /\ SF_vars(ChannelQueues)
    /\ SF_vars(ChannelTakesState)
    /\ WF_vars(SegTickBegins)
    /\ WF_vars(SegTickDrains)
    /\ WF_vars(SegTickEncodes)

\* The goroutines of the publisher are scheduled fairly, a goroutine that
\* waits for a mutex gets it in its turn, and a playlist request finishes
PublisherFair ==
    /\ SF_vars(SegTickSendsReset)
    /\ SF_vars(SegTickSendsSegment)
    /\ SF_vars(ControlPublishes)
    /\ SF_vars(ControlResets)
    /\ WF_vars(PubTickBegins)
    /\ WF_vars(PubTickAges)
    /\ SF_vars(PubTickPublishes)
    \* the list is finite: the pass over it comes to its end
    /\ SF_vars(PubTickEnds)
    /\ WF_vars(HttpDone)

-----------------------------------------------------------------------------
(* The TCP server: tcpServer and the goroutines of its connections,
   audio-in.go; a byte is known by the connection it came from *)

Connections == 1..MaxConnections

InitConnections ==
    /\ currentServer = 0
    /\ connOpen = {}
    /\ reader = [c \in Connections |-> "none"]
    /\ sharedTcpBuffer = <<>>
    /\ took = [c \in Connections |-> {}]

notConnections ==
    <<pubOnly, fileVars, procOnly, gapOnly, streamVars, fillVars, decodeVars,
      makeVars, httpVars, orderVars, taskVars, udpVars>>

\* Lines 454-456: currentServer.Close()
CloseCurrent(open, current) == open \ {current}

\* Lines 452-473: a connection is accepted, the one before it is closed, and
\* a goroutine is started for the new one
TcpAccept ==
    /\ currentServer < MaxConnections
    /\ LET newServer == currentServer + 1
       IN /\ connOpen' = CloseCurrent(connOpen, currentServer) \cup {newServer}
          /\ currentServer' = newServer
          /\ reader' = [reader EXCEPT ![newServer] = "read"]
    /\ UNCHANGED <<sharedTcpBuffer, took>>
    /\ UNCHANGED notConnections

\* Line 478 and handleUrtpStream line 293: server.Read returns some bytes,
\* which are written to tcpBuffer; or the connection has been closed and the
\* goroutine ends
ReaderReads(c) ==
    /\ reader[c] = "read"
    /\ IF c \in connOpen
       THEN /\ Len(sharedTcpBuffer) < 2 * MaxRead
            /\ \E numBytesIn \in 1..MaxRead :
                 sharedTcpBuffer' = sharedTcpBuffer \o [i \in 1..numBytesIn |-> c]
            /\ reader' = [reader EXCEPT ![c] = "loop"]
       ELSE /\ reader' = [reader EXCEPT ![c] = "ended"]
            /\ UNCHANGED sharedTcpBuffer
    /\ UNCHANGED <<currentServer, connOpen, took>>
    /\ UNCHANGED notConnections

\* handleUrtpStream lines 296-389: tcpBuffer.ReadByte gives the next byte,
\* which goes into the record the goroutine is assembling
ReaderTakesByte(c) ==
    /\ reader[c] = "loop"
    /\ sharedTcpBuffer # <<>>
    /\ took' = [took EXCEPT ![c] = @ \cup {Head(sharedTcpBuffer)}]
    /\ sharedTcpBuffer' = Tail(sharedTcpBuffer)
    /\ UNCHANGED <<currentServer, connOpen, reader>>
    /\ UNCHANGED notConnections

\* handleUrtpStream lines 296 and 391: tcpBuffer is empty, the call returns
ReaderReturns(c) ==
    /\ reader[c] = "loop"
    /\ sharedTcpBuffer = <<>>
    /\ reader' = [reader EXCEPT ![c] = "read"]
    /\ UNCHANGED <<currentServer, connOpen, sharedTcpBuffer, took>>
    /\ UNCHANGED notConnections

NextConnections ==
    \/ TcpAccept
    \/ \E c \in Connections : ReaderReads(c)
    \/ \E c \in Connections : ReaderTakesByte(c)
    \/ \E c \in Connections : ReaderReturns(c)

-----------------------------------------------------------------------------
(* handleGap with the samples it writes, audio-process.go *)

\* An int16 as the uint16 of the same bits
U16(x) == (x + 65536) % 65536

\* Line 173: byte(x >> (z * 8)) for z = 0, 1
SampleBytes(x) == <<U16(x) % 256, U16(x) \div 256>>

\* A previous datagram for handleGap: none at all (nil), one whose Audio is
\* nil, or one with the samples given
NoPrevious == [datagram |-> FALSE, audioNil |-> TRUE, samples |-> <<>>]

PreviousNilAudio == [datagram |-> TRUE, audioNil |-> TRUE, samples |-> <<>>]

PreviousWith(samples) == [datagram |-> TRUE, audioNil |-> FALSE, samples |-> samples]

\* Lines 170-179, with the index never wrapping
FillSourceStuck(i, length) == IF i < length THEN i + 1 ELSE length

\* Lines 170-179: the index into the previous audio of fill sample i (from
\* 0), counted from 1
FillSource(i, length) == (i % length) + 1

\* handleGap, lines 162-186: the bytes written to pcmAudio, or a panic
HandleGapBytes(gap, previousDatagram) ==
    IF ~Fillable(gap)
    THEN [panic |-> FALSE, bytes |-> <<>>]
    ELSE IF previousDatagram.datagram /\ previousDatagram.audioNil
    THEN [panic |-> TRUE, bytes |-> <<>>]
    ELSE IF previousDatagram.datagram /\ Len(previousDatagram.samples) > 0
    THEN [panic |-> FALSE,
          bytes |-> [k \in 1..(gap * URTP_SAMPLE_SIZE) |->
                       SampleBytes(previousDatagram.samples[
                           FillSource((k - 1) \div URTP_SAMPLE_SIZE,
                                      Len(previousDatagram.samples))])[
                           ((k - 1) % URTP_SAMPLE_SIZE) + 1]]]
    ELSE [panic |-> FALSE, bytes |-> [k \in 1..(gap * URTP_SAMPLE_SIZE) |-> 0]]

\* The gaps and previous datagrams handleGap is called with
FillGaps == 0..MaxGap \cup {7999, 8000}

FillPrevious ==
    { NoPrevious, PreviousNilAudio, PreviousWith(<<>>), PreviousWith(<<5>>),
      PreviousWith(<<0 - 2, 300>>), PreviousWith(<<1, 0 - 32768, 32767>>) }

NotCalled == [done |-> FALSE, panic |-> FALSE, bytes |-> <<>>]

NoFill ==
    /\ fillInput = [gap |-> 0, previousDatagram |-> NoPrevious]
    /\ fillOutput = NotCalled

InitFill ==
    /\ fillInput \in [gap : FillGaps, previousDatagram : FillPrevious]
    /\ fillOutput = NotCalled

\* handleGap is called
HandleGapCall ==
    /\ ~fillOutput.done
    /\ LET r == HandleGapBytes(fillInput.gap, fillInput.previousDatagram)
       IN fillOutput' = [done |-> TRUE, panic |-> r.panic, bytes |-> r.bytes]
    /\ UNCHANGED fillInput
    /\ UNCHANGED <<pubOnly, fileVars, procOnly, gapOnly, streamVars, decodeVars, makeVars, httpVars, orderVars, taskVars, connVars, udpVars>>

NextFill == HandleGapCall

-----------------------------------------------------------------------------
(* TCP reception: tcpServer and handleUrtpStream, audio-in.go *)

\* Line 476: the reassembly data of a new connection
NewReassemblyData ==
    [State |-> "WAITING_SYNC", ByteCount |-> 0, PayloadSize |-> 0,
     Header |-> <<>>, Datagram |-> <<>>]

\* Line 340: the weight of a byte of the payload size
PayloadSizeShift(byteCount) ==
    IF URTP_PAYLOAD_SIZE_SIZE - byteCount - 1 = 1 THEN 256 ELSE 1

\* The whole of the buffer, whatever is left of the payload
ReadAllAvailable(available, payloadSize) == available

\* Lines 368-371: the bytes of payload read in one go
BytesToRead(available, payloadSize) ==
    IF available > payloadSize THEN payloadSize ELSE available

Take(l, n) == SubSeq(l, 1, n)

Drop(l, n) == SubSeq(l, n + 1, Len(l))

\* Lines 295-389: the loop of handleUrtpStream over the bytes of tcpBuffer;
\* out is the list of packets handed to handleUrtpDatagram so far
RECURSIVE StreamLoop(_, _, _)
StreamLoop(rd, tcpBuffer, out) ==
    IF tcpBuffer = <<>>
    THEN [reassemblyData |-> rd, emitted |-> out]
    ELSE
      LET item == Head(tcpBuffer)
          rest == Tail(tcpBuffer)
          reset == [rd EXCEPT !.Header = <<>>, !.State = "WAITING_SYNC"]
          header == Append(rd.Header, item)
      IN
      CASE rd.State = "WAITING_SYNC" ->
             IF item = SYNC_BYTE
             THEN StreamLoop([rd EXCEPT !.Header = header,
                                        !.State = "WAITING_AUDIO_CODING"], rest, out)
             ELSE StreamLoop(reset, rest, out)
        [] rd.State = "WAITING_AUDIO_CODING" ->
             IF item < MAX_NUM_AUDIO_CODING_SCHEMES
             THEN StreamLoop([rd EXCEPT !.Header = header,
                                        !.State = "WAITING_SEQUENCE_NUMBER"], rest, out)
             ELSE StreamLoop(reset, rest, out)
        [] rd.State = "WAITING_SEQUENCE_NUMBER" ->
             IF rd.ByteCount + 1 >= URTP_SEQUENCE_NUMBER_SIZE
             THEN StreamLoop([rd EXCEPT !.Header = header, !.ByteCount = 0,
                                        !.State = "WAITING_TIMESTAMP"], rest, out)
             ELSE StreamLoop([rd EXCEPT !.Header = header,
                                        !.ByteCount = rd.ByteCount + 1], rest, out)
        [] rd.State = "WAITING_TIMESTAMP" ->
             IF rd.ByteCount + 1 >= URTP_TIMESTAMP_SIZE
             THEN StreamLoop([rd EXCEPT !.Header = header, !.ByteCount = 0,
                                        !.State = "WAITING_PAYLOAD_SIZE"], rest, out)
             ELSE StreamLoop([rd EXCEPT !.Header = header,
                                        !.ByteCount = rd.ByteCount + 1], rest, out)
        [] rd.State = "WAITING_PAYLOAD_SIZE" ->
             LET size == rd.PayloadSize + item * PayloadSizeShift(rd.ByteCount)
             IN IF rd.ByteCount + 1 >= URTP_PAYLOAD_SIZE_SIZE
                THEN IF size <= URTP_DATAGRAM_MAX_SIZE
                     THEN IF size = 0
                          THEN StreamLoop([rd EXCEPT !.ByteCount = 0, !.PayloadSize = size,
                                                     !.Datagram = rd.Datagram \o header,
                                                     !.Header = <<>>,
                                                     !.State = "WAITING_SYNC"], rest, out)
                          ELSE StreamLoop([rd EXCEPT !.ByteCount = 0, !.PayloadSize = size,
                                                     !.Datagram = rd.Datagram \o header,
                                                     !.Header = header,
                                                     !.State = "WAITING_PAYLOAD"], rest, out)
                     ELSE StreamLoop([rd EXCEPT !.ByteCount = 0, !.PayloadSize = 0,
                                                !.Header = <<>>,
                                                !.State = "WAITING_SYNC"], rest, out)
                ELSE StreamLoop([rd EXCEPT !.Header = header, !.PayloadSize = size,
                                           !.ByteCount = rd.ByteCount + 1], rest, out)
        [] rd.State = "WAITING_PAYLOAD" ->
             LET left == IF rd.PayloadSize > 0 THEN rd.PayloadSize - 1 ELSE rd.PayloadSize
                 bytesToRead == BytesToRead(Len(rest), left)
                 datagram == Append(rd.Datagram, item) \o Take(rest, bytesToRead)
             IN IF left - bytesToRead = 0
                THEN StreamLoop([rd EXCEPT !.PayloadSize = 0, !.Datagram = <<>>,
                                           !.Header = <<>>, !.State = "WAITING_SYNC"],
                                Drop(rest, bytesToRead), Append(out, datagram))
                ELSE StreamLoop([rd EXCEPT !.PayloadSize = left - bytesToRead,
                                           !.Datagram = datagram],
                                Drop(rest, bytesToRead), out)
        [] OTHER ->
             StreamLoop([rd EXCEPT !.ByteCount = 0, !.PayloadSize = 0, !.Header = <<>>,
                                   !.State = "WAITING_SYNC"], rest, out)

\* handleUrtpStream, lines 286-392: data is written to tcpBuffer, which the
\* previous call left empty, and the loop runs until tcpBuffer is empty
HandleUrtpStream(rd, data) == StreamLoop(rd, data, <<>>)

\* A URTP header as the client builds it: sync byte, audio coding scheme,
\* sequence number, timestamp and payload size, big-endian
UrtpHeader(coding, sequenceNumber, timestamp, size) ==
    <<SYNC_BYTE, coding, sequenceNumber \div 256, sequenceNumber % 256,
      0, 0, 0, 0, 0, 0, timestamp \div 256, timestamp % 256,
      size \div 256, size % 256>>

\* Two records, the first with a sync byte in its payload
RecordA == UrtpHeader(0, 1, 258, 2) \o <<SYNC_BYTE, 12>>

RecordB == UrtpHeader(0, 2, 259, 4) \o <<1, 2, 3, 4>>

\* What the client may send ahead of a record: nothing, a byte of garbage, a
\* stray sync byte, a header it gave up, a header announcing too much, a
\* record without payload, a header announcing one byte more than a block
Pieces ==
    { <<>>, <<7>>, <<SYNC_BYTE>>, <<SYNC_BYTE, 1, 0>>,
      UrtpHeader(0, 4, 261, 768), UrtpHeader(0, 3, 260, 0),
      UrtpHeader(0, 5, 262, SAMPLES_PER_BLOCK * URTP_SAMPLE_SIZE + 1) }

Streams == { p1 \o RecordA \o p2 \o RecordB : p1 \in Pieces, p2 \in Pieces }

NoStream ==
    /\ stream = <<>>
    /\ streamPos = 0
    /\ reassemblyData = NewReassemblyData
    /\ emitted = <<>>
    /\ splitHeader = FALSE

\* A connection is made (lines 453-476) by a client about to send a stream
InitStream ==
    /\ stream \in Streams
    /\ streamPos = 0
    /\ reassemblyData = NewReassemblyData
    /\ emitted = <<>>
    /\ splitHeader = FALSE

InHeader(rd) ==
    rd.State \in {"WAITING_AUDIO_CODING", "WAITING_SEQUENCE_NUMBER",
                  "WAITING_TIMESTAMP", "WAITING_PAYLOAD_SIZE"}

\* Lines 479-480: server.Read returns some of the bytes sent and
\* handleUrtpStream is called with them
TcpRead ==
    /\ streamPos < Len(stream)
    /\ \E numBytesIn \in 1..MaxChunk :
         /\ streamPos + numBytesIn <= Len(stream)
         /\ LET r == HandleUrtpStream(reassemblyData,
                                      SubSeq(stream, streamPos + 1, streamPos + numBytesIn))
            IN /\ reassemblyData' = r.reassemblyData
               /\ emitted' = emitted \o r.emitted
               /\ splitHeader' = (splitHeader \/ InHeader(r.reassemblyData))
         /\ streamPos' = streamPos + numBytesIn
    /\ UNCHANGED stream
    /\ UNCHANGED notStream

NextStream == TcpRead

-----------------------------------------------------------------------------
(* The decoders: decodePcm and decodeUnicam, audio-in.go, and the bytes
   processDatagram writes for the decoded audio *)

\* A uint16 as the int16 of the same bits
ToInt16(u) == IF u % 65536 >= 32768 THEN (u % 65536) - 65536 ELSE u % 65536

\* A sample read with the first byte as the low one
PcmSampleLittleEndian(first, second) == ToInt16(second * 256 + first)

\* Line 127: (int16(b0) << 8) + int16(b1)
PcmSample(first, second) == ToInt16(first * 256 + second)

\* decodePcm, lines 120-131
DecodePcm(audioDataPcm) ==
    [y \in 1..(Len(audioDataPcm) \div URTP_SAMPLE_SIZE) |->
        PcmSample(audioDataPcm[2 * y - 1], audioDataPcm[2 * y])]

\* Lines 147-149: the blocks counted before decoding, x being the bit offset
RECURSIVE NumBlocks(_, _, _)
NumBlocks(x, bits, sampleSizeBits) ==
    IF x < bits
    THEN 1 + NumBlocks(x + SAMPLES_PER_UNICAM_BLOCK * sampleSizeBits
                             + UNICAM_CODED_SHIFT_SIZE_BITS, bits, sampleSizeBits)
    ELSE 0

\* Lines 157-200: the blocks are read from the payload; an index beyond the
\* end of the payload is a panic (index out of range)
RECURSIVE UnicamReadPanics(_, _, _, _)
UnicamReadPanics(blockCount, sourceIndex, numBlocks, length) ==
    IF blockCount >= numBlocks THEN FALSE
    ELSE IF sourceIndex + SAMPLES_PER_UNICAM_BLOCK > length THEN TRUE
    ELSE IF blockCount % 2 = 0
         THEN IF sourceIndex + SAMPLES_PER_UNICAM_BLOCK >= length THEN TRUE
              ELSE UnicamReadPanics(blockCount + 1,
                                    sourceIndex + SAMPLES_PER_UNICAM_BLOCK + 1,
                                    numBlocks, length)
         ELSE UnicamReadPanics(blockCount + 1, sourceIndex + SAMPLES_PER_UNICAM_BLOCK,
                               numBlocks, length)

\* decodeUnicam, lines 135-203: whether it panics and the number of samples
\* it returns (their values come out of the filters)
DecodeUnicam(audioDataUnicam, sampleSizeBits) ==
    LET numBlocks == NumBlocks(0, Len(audioDataUnicam) * 8, sampleSizeBits)
    IN [panic |-> UnicamReadPanics(0, 0, numBlocks, Len(audioDataUnicam)),
        samples |-> numBlocks * SAMPLES_PER_UNICAM_BLOCK]

\* processDatagram, lines 205-210: the bytes written to pcmAudio for the audio
RECURSIVE AudioBytes(_)
AudioBytes(audio) ==
    IF audio = <<>> THEN <<>> ELSE SampleBytes(Head(audio)) \o AudioBytes(Tail(audio))

\* The payloads given to the decoders
PcmPayloads ==
    UNION { [1..n -> {0, 1, 128, 255}] : n \in 0..MaxPcmPayload }

UnicamPayloads == { [i \in 1..n |-> 0] : n \in 1..MaxUnicamBytes }

NotDecoded ==
    [done |-> FALSE, panic |-> FALSE, samples |-> 0, audio |-> <<>>,
     written |-> FALSE, audioBytes |-> <<>>]

NoDecode ==
    /\ decodeInput = [coding |-> PCM_SIGNED_16_BIT, payload |-> <<>>]
    /\ decodeOutput = NotDecoded

InitDecode ==
    /\ decodeInput \in [coding : {PCM_SIGNED_16_BIT}, payload : PcmPayloads]
                        \cup [coding : {UNICAM_COMPRESSED_8_BIT}, payload : UnicamPayloads]
    /\ decodeOutput = NotDecoded

\* handleUrtpDatagram lines 227-229: a PCM payload is decoded
DecodePcmCall ==
    /\ ~decodeOutput.done
    /\ decodeInput.coding = PCM_SIGNED_16_BIT
    /\ LET audio == DecodePcm(decodeInput.payload)
       IN decodeOutput' = [decodeOutput EXCEPT !.done = TRUE, !.samples = Len(audio),
                                               !.audio = audio]
    /\ UNCHANGED decodeInput
    /\ UNCHANGED <<pubOnly, fileVars, procOnly, gapOnly, streamVars, fillVars, makeVars, httpVars, orderVars, taskVars, connVars, udpVars>>

\* handleUrtpDatagram lines 230-232: a UNICAM payload is decoded
DecodeUnicamCall ==
    /\ ~decodeOutput.done
    /\ decodeInput.coding = UNICAM_COMPRESSED_8_BIT
    /\ LET r == DecodeUnicam(decodeInput.payload, 8)
       IN decodeOutput' = [decodeOutput EXCEPT !.done = TRUE, !.panic = r.panic,
                                               !.samples = IF r.panic THEN 0 ELSE r.samples]
    /\ UNCHANGED decodeInput
    /\ UNCHANGED <<pubOnly, fileVars, procOnly, gapOnly, streamVars, fillVars, makeVars, httpVars, orderVars, taskVars, connVars, udpVars>>

\* processDatagram lines 204-213: the decoded PCM audio is written to pcmAudio
WriteAudio ==
    /\ decodeOutput.done
    /\ ~decodeOutput.written
    /\ decodeInput.coding = PCM_SIGNED_16_BIT
    /\ decodeOutput' = [decodeOutput EXCEPT !.written = TRUE,
                                            !.audioBytes = AudioBytes(decodeOutput.audio)]
    /\ UNCHANGED decodeInput
    /\ UNCHANGED <<pubOnly, fileVars, procOnly, gapOnly, streamVars, fillVars, makeVars, httpVars, orderVars, taskVars, connVars, udpVars>>

NextDecode ==
    \/ DecodePcmCall
    \/ DecodeUnicamCall
    \/ WriteAudio

-----------------------------------------------------------------------------
(* UDP reception: udpServer, verifyUrtpHeader and handleUrtpDatagram, audio-in.go *)

\* The payload sizes the headers declare, as the two bytes of the header
PayloadSizes == { <<0, 0>>, <<2, 128>>, <<2, 129>>, <<2, 142>>, <<2, 143>> }

\* A UDP packet: its length and the bytes of its header that are looked at
\* (sync, audio coding scheme and the two bytes of the payload size)
UdpPackets ==
    { [length |-> l, sync |-> y, coding |-> c, sizeHigh |-> z[1], sizeLow |-> z[2]] :
        l \in {0, URTP_HEADER_SIZE - 1, URTP_HEADER_SIZE, URTP_DATAGRAM_MAX_SIZE + 1},
        y \in {SYNC_BYTE, 0}, c \in {0, 1, 2}, z \in PayloadSizes }

\* The 14 bytes of the header of a packet, its sequence number being bytes 1
\* and 2 and its timestamp bytes 3 to 10
PacketHeader(packet) ==
    <<packet.sync, packet.coding, 1, 2, 3, 4, 5, 6, 7, 8, 9, 10,
      packet.sizeHigh, packet.sizeLow>>

\* Line 263: the payload size in the header, big-endian
BytesOfPayload(header) == header.sizeHigh * 256 + header.sizeLow

\* verifyUrtpHeader, lines 256-280, on the first URTP_HEADER_SIZE bytes
VerifyUrtpHeader(header) ==
    /\ header.sync = SYNC_BYTE
    /\ header.coding < MAX_NUM_AUDIO_CODING_SCHEMES
    /\ BytesOfPayload(header) <= URTP_DATAGRAM_MAX_SIZE

\* Line 414: ReadFromUDP fills a buffer of URTP_DATAGRAM_MAX_SIZE bytes
NumBytesIn(packet) == Min(packet.length, URTP_DATAGRAM_MAX_SIZE)

\* handleUrtpDatagram line 245: the timing datagram made of a packet
TimingDatagram(packet) ==
    <<packet[1], packet[3], packet[4], packet[5], packet[6], packet[7], packet[8],
      packet[9], packet[10], packet[11], packet[12]>>

\* The zero value of time.Time (line 106), long before the server starts
ZeroTime == 0 - 2 * TIMING_DATAGRAM_PERIOD

\* A time that is reached is taken for passed
NotBefore(t, u) == t >= u

\* Lines 418 and 481: time.Time.After
After(t, u) == t > u

NoOutcome ==
    [read |-> FALSE,
     packet |-> [length |-> 0, sync |-> 0, coding |-> 0, sizeHigh |-> 0, sizeLow |-> 0],
     delivered |-> FALSE, audioNil |-> TRUE, timingDatagram |-> <<>>,
     echo |-> FALSE, sent |-> FALSE]

InitUdp ==
    /\ udpServing = TRUE
    /\ now = 0
    /\ timingDatagramSent = ZeroTime
    /\ udpPc = "read"
    /\ tcpPc = "read"
    /\ echoTimes = <<ZeroTime, ZeroTime>>
    /\ udpOutcome = NoOutcome

\* Lines 414-418 and handleUrtpDatagram: one packet is read. A read of no
\* bytes ends the loop; a packet with a valid header is sent to the
\* processing channel, and a timing datagram is to be sent back when one is due.
UdpRead ==
    /\ udpServing
    /\ udpPc = "read"
    /\ \E packet \in UdpPackets :
         LET numBytesIn == NumBytesIn(packet)
             delivered == numBytesIn >= URTP_HEADER_SIZE /\ VerifyUrtpHeader(packet)
             timingDatagram == IF delivered THEN TimingDatagram(PacketHeader(packet))
                               ELSE <<>>
             echo == /\ Len(timingDatagram) > 0
                     /\ After(now, timingDatagramSent + TIMING_DATAGRAM_PERIOD)
         IN /\ udpServing' = (numBytesIn > 0)
            /\ udpOutcome' = [read |-> TRUE, packet |-> packet, delivered |-> delivered,
                              audioNil |-> ~(numBytesIn > URTP_HEADER_SIZE),
                              timingDatagram |-> timingDatagram,
                              echo |-> echo, sent |-> FALSE]
            /\ udpPc' = IF echo THEN "send" ELSE "read"
    /\ UNCHANGED <<now, timingDatagramSent, tcpPc, echoTimes>>
    /\ UNCHANGED <<pubOnly, fileVars, procOnly, gapOnly, streamVars, fillVars, decodeVars, makeVars, httpVars, orderVars, taskVars, connVars>>

\* Lines 419-425: WriteToUDP returns; timingDatagramSent is set if it succeeded
UdpSend ==
    /\ udpPc = "send"
    /\ udpPc' = "read"
    /\ \E ok \in BOOLEAN :
         /\ timingDatagramSent' = IF ok THEN now ELSE timingDatagramSent
         /\ echoTimes' = IF ok THEN <<echoTimes[2], now>> ELSE echoTimes
         /\ udpOutcome' = [udpOutcome EXCEPT !.sent = ok]
    /\ UNCHANGED <<udpServing, now, tcpPc>>
    /\ UNCHANGED <<pubOnly, fileVars, procOnly, gapOnly, streamVars, fillVars, decodeVars, makeVars, httpVars, orderVars, taskVars, connVars>>

\* tcpServer lines 479-481: a read on the TCP connection completed a record
\* and a timing datagram is due
TcpTimingDue ==
    /\ tcpPc = "read"
    /\ After(now, timingDatagramSent + TIMING_DATAGRAM_PERIOD)
    /\ tcpPc' = "send"
    /\ UNCHANGED <<udpServing, now, timingDatagramSent, udpPc, echoTimes, udpOutcome>>
    /\ UNCHANGED <<pubOnly, fileVars, procOnly, gapOnly, streamVars, fillVars, decodeVars, makeVars, httpVars, orderVars, taskVars, connVars>>

\* tcpServer lines 482-488: server.Write returns
TcpSend ==
    /\ tcpPc = "send"
    /\ tcpPc' = "read"
    /\ \E ok \in BOOLEAN :
         /\ timingDatagramSent' = IF ok THEN now ELSE timingDatagramSent
         /\ echoTimes' = IF ok THEN <<echoTimes[2], now>> ELSE echoTimes
    /\ UNCHANGED <<udpServing, now, udpPc, udpOutcome>>
    /\ UNCHANGED <<pubOnly, fileVars, procOnly, gapOnly, streamVars, fillVars, decodeVars, makeVars, httpVars, orderVars, taskVars, connVars>>

\* time.Now() moves on
TimePasses ==
    /\ now < MaxNow * ClockStep
    /\ now' = now + ClockStep
    /\ UNCHANGED <<udpServing, timingDatagramSent, udpPc, tcpPc, echoTimes, udpOutcome>>
    /\ UNCHANGED <<pubOnly, fileVars, procOnly, gapOnly, streamVars, fillVars, decodeVars, makeVars, httpVars, orderVars, taskVars, connVars>>

NextUdp ==
    \/ UdpRead
    \/ UdpSend
    \/ TcpTimingDue
    \/ TcpSend
    \/ TimePasses

-----------------------------------------------------------------------------
(* Specifications *)

Init ==
    InitOut /\ InitProc /\ InitGap /\ NoStream /\ NoFill /\ InitUdp /\ NoDecode /\ NoMake
    /\ InitHttp /\ InitOrder /\ InitTasks /\ InitConnections

InitConnected ==
    InitOut /\ InitProc /\ InitGap /\ InitStream /\ NoFill /\ InitUdp /\ NoDecode /\ NoMake
    /\ InitHttp /\ InitOrder /\ InitTasks /\ InitConnections

InitDecodeCall ==
    InitOut /\ InitProc /\ InitGap /\ NoStream /\ NoFill /\ InitUdp /\ InitDecode /\ NoMake
    /\ InitHttp /\ InitOrder /\ InitTasks /\ InitConnections

InitMakeCall ==
    InitOut /\ InitProc /\ InitGap /\ NoStream /\ NoFill /\ InitUdp /\ NoDecode /\ InitMake
    /\ InitHttp /\ InitOrder /\ InitTasks /\ InitConnections

InitGapCall ==
    InitOut /\ InitProc /\ InitGap /\ NoStream /\ InitFill /\ InitUdp /\ NoDecode /\ NoMake
    /\ InitHttp /\ InitOrder /\ InitTasks /\ InitConnections

\* The publisher, with the segmenter seen through the messages it sends
SpecOut == Init /\ [][NextOut]_vars

\* The segmenter, with the publisher seen through the messages it is sent
SpecProc == Init /\ [][NextProc]_vars

\* sync.Mutex: a goroutine that waits for playlistLocker gets it in the end,
\* and streamHandler (audio-out.go lines 189-192) unlocks it once the
\* response is written
PlaylistFair ==
    /\ SF_vars(NewSegmentPublish)
    /\ SF_vars(ResetPublish)
    /\ SF_vars(TickPublish)
    /\ WF_vars(HttpPlaylistEnd)

SpecPublish == Init /\ [][NextOut]_vars /\ PlaylistFair

\* processDatagram, applied to any datagram after any other
SpecGap == Init /\ [][NextGap]_vars

\* handleGap, called once with any gap and any previous datagram
SpecFill == InitGapCall /\ [][NextFill]_vars

\* The segmenter fed one record at most, its ticker firing for ever
SpecQuiet ==
    Init /\ [][NextQuiet]_vars /\ WF_vars(TickDrain) /\ WF_vars(TickEncode)

\* The HTTP server, handling one request after another
SpecHttp == Init /\ [][NextHttp]_vars

\* The segmenter with its two goroutines and the mutex of the new list
SpecOrder == Init /\ [][NextOrder]_vars

\* The goroutines, those of the segmenter scheduled fairly
SpecIngest == Init /\ [][NextTasks]_vars /\ SegmenterFair

\* The goroutines, all scheduled fairly
SpecTasks == Init /\ [][NextTasks]_vars /\ SegmenterFair /\ PublisherFair

\* The TCP server accepting one connection after another
SpecConnections == Init /\ [][NextConnections]_vars

\* makePlaylist, called once with any segment list
SpecMake == InitMakeCall /\ [][NextMake]_vars

\* A decoder, called once with any payload
SpecDecode == InitDecodeCall /\ [][NextDecode]_vars

\* The UDP server reading packets, next to the goroutine of a TCP connection
SpecUdp == Init /\ [][NextUdp]_vars

\* One TCP connection, its stream read in chunks of any size
SpecStream == InitConnected /\ [][NextStream]_vars

-----------------------------------------------------------------------------
(* Claims about the publisher, checked under SpecOut *)

\* The file names the published playlist lists, in order
PlaylistNames == [i \in 1..Len(playlist.segments) |-> playlist.segments[i].fileName]

UsableNames == {mp3FileList[i].fileName : i \in {j \in 1..Len(mp3FileList) : mp3FileList[j].usable}}

\* The control goroutine returns to its channel after a Reset
ResetDone == ctlPc = "resetPublish" /\ ctlPc' = "idle"

\* C1: the published playlist lists only segments that are usable now, in
\* creation order. Stated in the form most favourable to the code: it is
\* asked only of the states where no goroutine sits between its own change of
\* the list and the rebuild that follows that change.
C1_PublishedOnlyUsable ==
    (tickPc # "publish" /\ ctlPc # "resetZero") =>
        /\ \A i \in 1..Len(PlaylistNames) : PlaylistNames[i] \in UsableNames
        /\ \A i, k \in 1..Len(PlaylistNames) : i < k => PlaylistNames[i] < PlaylistNames[k]

C3_ListedFilesExist ==
    \A i \in 1..Len(PlaylistNames) : PlaylistNames[i] \in disk

\* C4 as stated: when a Reset has been handled the list is empty, the
\* playlist lists nothing and mediaSequenceNumber is 0.
C4_ResetEmptiesEverything ==
    [][ResetDone => /\ mp3FileList' = <<>>
                    /\ playlist'.segments = <<>>
                    /\ mediaSequenceNumber' = 0]_vars

\* C4 as amended: when a Reset has been handled, the list and the playlist
\* hold only segments whose file the Reset failed to delete; if every
\* deletion succeeded the list is empty, the playlist lists nothing and
\* mediaSequenceNumber is 0.
C4_ResetKeepsOnlyUndeleted ==
    [][ResetDone => /\ Names(mp3FileList') \subseteq lastReset'.kept
                    /\ \A i \in 1..Len(playlist'.segments) :
                          playlist'.segments[i].fileName \in lastReset'.kept
                    /\ lastReset'.kept = {} =>
                          /\ mp3FileList' = <<>>
                          /\ playlist'.segments = <<>>
                          /\ ~playlist'.nil
                          /\ mediaSequenceNumber' = 0]_vars

C4_Witness ==
    /\ ctlPc = "idle"
    /\ lastReset.deleted # {}
    /\ lastReset.kept = {}
    /\ mp3FileList = <<>>
    /\ ~playlist.nil

\* C5 as stated: when the Reset has been handled the playlist is empty,
\* mediaSequenceNumber is 0 and no .mp3 file remains in the live directory.
C5_ResetLeavesNoFile ==
    [][ResetDone => /\ playlist'.segments = <<>>
                    /\ mediaSequenceNumber' = 0
                    /\ disk' = {}]_vars

\* C5 as amended: when the Reset has been handled, the .mp3 files remaining
\* are the file the segmenter is writing, files closed without being
\* published and files the Reset failed to delete; if no deletion failed the
\* playlist is empty and mediaSequenceNumber is 0.
C5_ResetLeavesOnlyUntracked ==
    [][ResetDone => /\ disk' \subseteq ({mp3Handle'} \cup orphans' \cup lastReset'.kept)
                    /\ lastReset'.deleted \cap disk' = {}
                    /\ lastReset'.kept = {} =>
                          /\ playlist'.segments = <<>>
                          /\ mediaSequenceNumber' = 0]_vars

C5_Witness ==
    /\ ctlPc = "resetPublish"
    /\ lastReset.deleted # {}
    /\ lastReset.kept = {}
    /\ mp3Handle \in disk
    /\ agedOut = 0

-----------------------------------------------------------------------------
(* Claims about the segmenter, checked under SpecProc *)

\* The first half of a tick: lines 328-368
DrainStep == procPc = "idle" /\ procPc' = "encode"

ResetSent == mediaSent'.type = "reset"

\* C6: the out of service age grows by 20 ms on a tick that processed no
\* datagram and returns to 0 on a tick that processed one; a Reset is sent
\* exactly on the tick that takes the age beyond maxOosAge, and that tick
\* puts the age, the segment offset, samplesEncoded and mp3SamplesToEncode
\* back to their initial values; a tick that processed a datagram sends none.
C6_OosWatchdog ==
    /\ [](oosAge >= 0 /\ oosAge <= maxOosAge)
    /\ [][DrainStep =>
            /\ newDatagramList # <<>> => (oosAge' = 0 /\ ~ResetSent)
            /\ (newDatagramList = <<>> /\ oosAge + 20 <= maxOosAge) =>
                   (oosAge' = oosAge + 20 /\ ~ResetSent)
            /\ (newDatagramList = <<>> /\ oosAge + 20 > maxOosAge) =>
                   /\ ResetSent
                   /\ oosAge' = 0
                   /\ mp3Offset' = 0
                   /\ samplesEncoded' = 0
                   /\ mp3SamplesToEncode' = SamplesPerSegment]_vars
    /\ [][~DrainStep => mediaSent'.type # "reset" \/ UNCHANGED mediaSent]_vars

\* A Reset was just sent, after a segment had been closed and while part of
\* the next one was encoded
C6_Witness ==
    /\ mediaSent.type = "reset"
    /\ oosAge = 0
    /\ nextFile > 2
    /\ mp3Audio > 0
    /\ samplesEncoded = 0
    /\ mp3Offset = 0

\* C7 (as the claim states it): every published segment is made of exactly
\* SamplesPerSegment samples fed to the encoder since the previous segment
\* was closed, whatever the interleaving of ticks, arrivals, silence and out
\* of service resets; no file error is needed to break it.
C7_SegmentSamplesExact ==
    (mediaSent.type = "segment" /\ ~fileError) => mediaSent.samples = SamplesPerSegment

-----------------------------------------------------------------------------
(* Claims about TCP reception, checked under SpecStream *)

\* The size a header declares
DeclaredSize(bytes, i) == bytes[i + 12] * 256 + bytes[i + 13]

\* A valid record starts at byte i of the stream: sync byte, coding below 2,
\* declared size at most 640, and that many bytes of payload behind the header
ValidRecordAt(bytes, i) ==
    /\ i + 13 <= Len(bytes)
    /\ bytes[i] = SYNC_BYTE
    /\ bytes[i + 1] < 2
    /\ DeclaredSize(bytes, i) <= 640
    /\ i + 13 + DeclaredSize(bytes, i) <= Len(bytes)

\* The valid records embedded in a stream, from byte i on, in stream order
RECURSIVE EmbeddedRecords(_, _)
EmbeddedRecords(bytes, i) ==
    IF i > Len(bytes) THEN <<>>
    ELSE IF ValidRecordAt(bytes, i)
         THEN <<SubSeq(bytes, i, i + 13 + DeclaredSize(bytes, i))>>
              \o EmbeddedRecords(bytes, i + 14 + DeclaredSize(bytes, i))
         ELSE EmbeddedRecords(bytes, i + 1)

\* C8 (as the claim states it): once the whole stream is read, the records
\* emitted are the valid records embedded in the stream, each once, in order,
\* whatever garbage, stray sync bytes or aborted headers come before them.
C8_EveryEmbeddedRecordEmitted ==
    streamPos = Len(stream) => emitted = EmbeddedRecords(stream, 1)

\* C9: however the stream is cut into reads, the records emitted and the
\* state of the reassembly after any number of bytes are those of one call of
\* handleUrtpStream with all of these bytes.
C9_ChunkingIndependent ==
    LET whole == HandleUrtpStream(NewReassemblyData, SubSeq(stream, 1, streamPos))
    IN /\ emitted = whole.emitted
       /\ reassemblyData = whole.reassemblyData

\* Line 219
UrtpSequenceNumber(packet) == packet[3] * 256 + packet[4]

\* Lines 221-222
UrtpTimestamp(packet) == packet[11] * 256 + packet[12]

\* A stream of two valid records was read in several reads, one of them
\* ending inside a header, and both records came out whole
C9_Witness ==
    /\ stream = RecordA \o RecordB
    /\ streamPos = Len(stream)
    /\ splitHeader
    /\ emitted = <<RecordA, RecordB>>
    /\ UrtpSequenceNumber(emitted[2]) = 2
    /\ UrtpTimestamp(emitted[2]) = 259

-----------------------------------------------------------------------------
(* Claims about the timeline writer, checked under SpecGap *)

\* C10 (as the claim states it): for a jump of K in the sequence numbers, K # 1
\* and 0 < K * 320 < 8000, processDatagram writes K * 320 - len(audio) fill
\* samples before the audio of the datagram.
C10_FillIsJumpLessAudio ==
    (/\ pcmWrites.hadPrevious
     /\ ~pcmWrites.panic
     /\ pcmWrites.jump # 1
     /\ 0 < pcmWrites.jump * 320
     /\ pcmWrites.jump * 320 < 8000)
    => pcmWrites.gapFill = pcmWrites.jump * 320 - pcmWrites.audio

\* C11 (as the claim states it): after a run of full records whose sequence
\* numbers increase, with fewer than 25 blocks missing between any two, the
\* samples written to the timeline number (last - first + 1) * 320.
C11_TimelineContinuity ==
    (timeline.regular /\ timeline.records > 0) =>
        timeline.total = (timeline.last - timeline.first + 1) * 320

-----------------------------------------------------------------------------
(* Claims about handleGap, checked under SpecFill *)

\* Sample i (from 1) of the timeline bytes, little-endian and signed
TimelineSample(bytes, i) ==
    LET u == bytes[2 * i] * 256 + bytes[2 * i - 1]
    IN IF u >= 32768 THEN u - 65536 ELSE u

\* The samples the claim expects for a gap after a previous datagram
ExpectedFill(gap, previousDatagram, i) ==
    IF previousDatagram.datagram /\ Len(previousDatagram.samples) > 0
    THEN previousDatagram.samples[((i - 1) % Len(previousDatagram.samples)) + 1]
    ELSE 0

\* What handleGap does when it returns: a gap of fewer than 8000 samples
\* appends exactly gap samples, the samples of the previous datagram repeated
\* cyclically from the first (zeros when there are none); a gap of 8000
\* samples or more appends nothing.
FillPolicy ==
    IF fillInput.gap < 8000
    THEN /\ Len(fillOutput.bytes) = 2 * fillInput.gap
         /\ \A i \in 1..fillInput.gap :
               TimelineSample(fillOutput.bytes, i)
                   = ExpectedFill(fillInput.gap, fillInput.previousDatagram, i)
    ELSE fillOutput.bytes = <<>>

\* C12 (as the claim states it): every call of handleGap follows the fill
\* policy, whatever the previous datagram.
C12_GapFillPolicy ==
    fillOutput.done => (~fillOutput.panic /\ FillPolicy)

\* What does hold: handleGap follows the fill policy in every call it
\* returns from, that is unless the previous datagram has a nil Audio
C12_GapFillPolicyUnlessPanic ==
    /\ (fillOutput.done /\ ~fillOutput.panic) => FillPolicy
    /\ (fillOutput.done /\ fillOutput.panic) =>
           (fillInput.previousDatagram = PreviousNilAudio /\ fillInput.gap < 8000)

C12_Witness ==
    /\ fillOutput.done
    /\ fillInput.gap = 5
    /\ fillInput.previousDatagram = PreviousWith(<<0 - 2, 300>>)
    /\ fillOutput.bytes = <<254, 255, 44, 1, 254, 255, 44, 1, 254, 255>>

-----------------------------------------------------------------------------
(* Claims about one record on the timeline, checked under SpecGap *)

\* The last datagram processed followed its predecessor, or had none
InSequence == pcmWrites # NoWrites /\ (~pcmWrites.hadPrevious \/ pcmWrites.jump = 1)

\* C13 (as the claim states it): every in-sequence record contributes exactly
\* 320 samples to the timeline, its audio followed by 320 - len(audio) fill
\* samples, which is a fill of 320 samples when it has no audio.
C13_InSequenceRecordIsOneBlock ==
    InSequence =>
        /\ ~pcmWrites.panic
        /\ pcmWrites.gapFill = 0
        /\ pcmWrites.audio + pcmWrites.shortFill = 320

\* What does hold: an in-sequence record contributes exactly 320 samples
\* unless its fill makes handleGap panic
C13_InSequenceRecordUnlessPanic ==
    (InSequence /\ ~pcmWrites.panic) =>
        /\ pcmWrites.gapFill = 0
        /\ pcmWrites.audio + pcmWrites.shortFill = 320

C13_Witness ==
    /\ InSequence
    /\ pcmWrites.hadPrevious
    /\ pcmWrites.audio = 160
    /\ pcmWrites.shortFill = 160

-----------------------------------------------------------------------------
(* Claims about the silence injected on OutputBufferState, checked under SpecProc *)

\* The minimum the claim compares with: 1000 ms, lowered to half the buffer
\* size when that is less
MinOutputBuffered(bufferSize) ==
    IF bufferSize \div 2 < 1000 THEN bufferSize \div 2 ELSE 1000

\* C14 (as the claim states it): on an OutputBufferState message one segment
\* of zero samples is injected if and only if Buffered is below the minimum,
\* 1000 ms lowered to half of BufferSize; so with BufferSize 1000 ms and
\* Buffered 700 ms nothing is injected.
C14_SilenceIffBelowAdjustedMinimum ==
    silence.received =>
        /\ silence.injected \in {0, SamplesPerSegment}
        /\ (silence.injected = SamplesPerSegment)
               <=> (silence.Buffered < MinOutputBuffered(silence.BufferSize))

\* What does hold: one segment of zero samples is injected if and only if
\* Buffered is below 1000 ms and a segment file is open
C14_SilenceIffBelowConstant ==
    silence.received =>
        /\ silence.injected \in {0, SamplesPerSegment}
        /\ (silence.injected = SamplesPerSegment)
               <=> (silence.Buffered < 1000 /\ silence.open)

C14_Witness ==
    /\ silence.received
    /\ silence.BufferSize = 1000
    /\ silence.Buffered = 700
    /\ silence.injected = SamplesPerSegment

-----------------------------------------------------------------------------
(* Claims about a single record, checked under SpecQuiet *)

\* C15 (as the claim states it): once the single record of 320 samples has
\* been processed and time passes with no further input, a segment is
\* published.
C15_OneRecordOneSegment ==
    (processedDatagramList # <<>>) ~> (mediaSent.type = "segment")

\* What does hold: with one record at most no segment is ever closed, the
\* segment in progress never holding more than the 320 samples of the record
C15_OneRecordNoSegment ==
    /\ mediaSent.type # "segment"
    /\ samplesEncoded <= SAMPLES_PER_BLOCK
    /\ mp3SamplesToEncode >= SamplesPerSegment - SAMPLES_PER_BLOCK
    /\ nextFile = 2

C15_Witness ==
    /\ processedDatagramList # <<>>
    /\ samplesEncoded = SAMPLES_PER_BLOCK
    /\ oosAge = maxOosAge

-----------------------------------------------------------------------------
(* Claims about the usable segments, checked under SpecOut *)

\* The playlist window in milliseconds
PlaylistWindowMs == playlistLengthSeconds * 1000

\* The durations of the segments marked usable, added up
UsableDuration == SumDuration(SelectUsable(mp3FileList))

TickElement == mp3FileList[IndexOf(mp3FileList, tickCur)]

-----------------------------------------------------------------------------
(* Claims about the files on disk, checked under SpecOut *)

\* The segment files on disk, the one the segmenter is still writing left out
ClosedFiles == disk \ {mp3Handle}

\* C17 (as the claim states it): every segment file on disk is in the segment
\* list of the publisher, listed in the playlist or awaiting deletion; that
\* includes the files of segments whose tag or data could not be written.
C17_EveryFileTracked == ClosedFiles \subseteq Names(mp3FileList)

\* What does hold: a closed file on disk that the publisher does not track is
\* the file of a segment whose tag or data could not be written
C17_UntrackedFilesAreFailedSegments ==
    (ClosedFiles \ Names(mp3FileList)) \subseteq orphans

-----------------------------------------------------------------------------
(* Claims about the life of a segment in the publisher, checked under SpecOut *)

\* The element of the list with the given file name
ElementOf(l, f) == l[IndexOf(l, f)]

\* A segment is appended usable and not removable
AppendedUsable ==
    Len(mp3FileList') > Len(mp3FileList) =>
        LET n == mp3FileList'[Len(mp3FileList')]
        IN n.usable /\ ~n.removable /\ n.fileName \notin Names(mp3FileList)

\* The tick makes an element unusable exactly when it is usable and older
\* than the playlist window, and changes nothing else of it
AgedByTick ==
    (tickPc = "age" /\ tickPc' # "age") =>
        LET e == ElementOf(mp3FileList, tickCur)
        IN /\ tickCur \in Names(mp3FileList')
           /\ ElementOf(mp3FileList', tickCur)
                 = [e EXCEPT !.usable = e.usable /\ ~(e.age > playlistLengthSeconds)]

\* The tick makes an element removable when it is unusable and older than
\* twice the playlist window, and removes it from the list exactly when it is
\* removable and its file is unlinked; otherwise the element stays
RemovedByTick ==
    (tickPc = "remove" /\ tickPc' # "remove") =>
        LET e == ElementOf(mp3FileList, tickCur)
            removableNow == e.removable
                              \/ (~e.usable /\ e.age > 2 * playlistLengthSeconds)
            unlinked == tickCur \in disk /\ tickCur \notin disk'
        IN /\ (tickCur \notin Names(mp3FileList')) <=> (removableNow /\ unlinked)
           /\ (tickCur \in Names(mp3FileList')) =>
                  ElementOf(mp3FileList', tickCur) = [e EXCEPT !.removable = removableNow]
           /\ ~removableNow => disk' = disk

\* An element that stays in the list never becomes usable or not removable
\* again, so the deletion of a removable element is tried at every tick
NeverYounger ==
    \A f \in Names(mp3FileList) \cap Names(mp3FileList') :
        /\ ElementOf(mp3FileList, f).removable => ElementOf(mp3FileList', f).removable
        /\ ~ElementOf(mp3FileList, f).usable => ~ElementOf(mp3FileList', f).usable

\* C18: the life of a segment in the publisher tick: appended usable and not
\* removable; unusable at the first tick that finds it older than the
\* playlist window; removable at the first tick that finds it unusable and
\* older than twice the window; removed from the list at a tick if and only if
\* it is removable and its file is unlinked at that tick, and otherwise kept
\* as it is, to be tried again at every later tick.
C18_SegmentLifecycle ==
    [][AppendedUsable /\ AgedByTick /\ RemovedByTick /\ NeverYounger]_vars

C18_Witness ==
    /\ tickPc = "idle"
    /\ \E i \in 1..Len(mp3FileList) :
         /\ mp3FileList[i].removable
         /\ mp3FileList[i].fileName \in disk
         /\ mp3FileList[i].age > 2 * playlistLengthSeconds

-----------------------------------------------------------------------------
(* Claims about UDP reception, checked under SpecUdp *)

\* The payload size a packet declares
DeclaredPayload(packet) == packet.sizeHigh * 256 + packet.sizeLow

\* The header of a packet as the claim accepts it, with the given maximum
\* payload size
Acceptable(packet, maxPayload) ==
    /\ packet.length >= 14
    /\ packet.sync = 90
    /\ packet.coding < 2
    /\ DeclaredPayload(packet) <= maxPayload

\* C19 (as the claim states it): a packet is delivered if and only if it is
\* at least 14 bytes long, starts with 0x5A, has a coding below 2 and declares
\* a payload of at most 640 bytes; any other packet is dropped with no timing
\* datagram sent back.
C19_DeliveredIffValid ==
    udpOutcome.read =>
        /\ udpOutcome.delivered <=> Acceptable(udpOutcome.packet, 640)
        /\ ~Acceptable(udpOutcome.packet, 640) => ~udpOutcome.echo

\* What does hold: the same with a declared payload of at most 654 bytes, the
\* size of a whole datagram; and a packet of no bytes stops the server
C19_DeliveredIffWithinDatagramSize ==
    udpOutcome.read =>
        /\ udpOutcome.delivered <=> Acceptable(udpOutcome.packet, 654)
        /\ ~Acceptable(udpOutcome.packet, 654) => ~udpOutcome.echo
        /\ udpServing <=> udpOutcome.packet.length > 0

C19_Witness ==
    /\ udpOutcome.read
    /\ udpOutcome.delivered
    /\ udpOutcome.echo
    /\ DeclaredPayload(udpOutcome.packet) = 641

-----------------------------------------------------------------------------
(* Claims about the header checks of the TCP framer, checked under SpecStream *)

\* A read of one byte, and that byte
OneByteRead == streamPos' = streamPos + 1

Item == stream[streamPos + 1]

\* A byte of 2 or more as the audio coding scheme returns the framer to
\* waiting for a sync byte, the header emptied
CodingRejected ==
    (OneByteRead /\ reassemblyData.State = "WAITING_AUDIO_CODING" /\ Item >= 2) =>
        /\ reassemblyData'.State = "WAITING_SYNC"
        /\ reassemblyData'.Header = <<>>

\* The payload size is the two size bytes, the most significant first
SizeBigEndian ==
    /\ (OneByteRead /\ reassemblyData.State = "WAITING_PAYLOAD_SIZE"
          /\ reassemblyData.ByteCount = 0) =>
           reassemblyData'.PayloadSize = Item * 256
    /\ (OneByteRead /\ reassemblyData.State = "WAITING_PAYLOAD_SIZE"
          /\ reassemblyData.ByteCount = 1 /\ reassemblyData'.State = "WAITING_PAYLOAD") =>
           reassemblyData'.PayloadSize = reassemblyData.PayloadSize + Item

\* A payload size above the maximum returns the framer to waiting for a sync
\* byte, the header emptied and the payload size 0
SizeRejectedAbove(maxPayload) ==
    (OneByteRead /\ reassemblyData.State = "WAITING_PAYLOAD_SIZE"
       /\ reassemblyData.ByteCount = 1
       /\ reassemblyData.PayloadSize + Item > maxPayload) =>
        /\ reassemblyData'.State = "WAITING_SYNC"
        /\ reassemblyData'.Header = <<>>
        /\ reassemblyData'.PayloadSize = 0

\* C20 (as the claim states it): a coding byte of 2 or more aborts the header;
\* the payload size is read big-endian and a size above 640 aborts the header
\* with the payload size back to 0.
C20_HeaderChecks ==
    [][CodingRejected /\ SizeBigEndian /\ SizeRejectedAbove(640)]_vars

\* What does hold: the same with a payload size above 654, the size of a
\* whole datagram
C20_HeaderChecksDatagramSize ==
    [][CodingRejected /\ SizeBigEndian /\ SizeRejectedAbove(654)]_vars

\* Where the two differ: the framer waits for a payload of 641 bytes
C20_Witness ==
    /\ reassemblyData.State = "WAITING_PAYLOAD"
    /\ reassemblyData.PayloadSize = 641

-----------------------------------------------------------------------------
(* Claims about a record without payload on a TCP connection, checked under
   SpecStream *)

\* The header of a record that declares no payload
ZeroPayloadRecord == UrtpHeader(0, 3, 260, 0)

\* C21 (as the claim states it): a valid header declaring a payload of 0
\* bytes is emitted at once as a header-only record, and the records that
\* follow it are emitted with their own sequence number, timestamp and payload.
C21_ZeroPayloadRecordEmitted ==
    (Len(stream) >= 14 /\ Take(stream, 14) = ZeroPayloadRecord) =>
        /\ streamPos >= 14 => (emitted # <<>> /\ emitted[1] = ZeroPayloadRecord)
        /\ (stream = ZeroPayloadRecord \o RecordA \o RecordB /\ streamPos = Len(stream))
               => emitted = <<ZeroPayloadRecord, RecordA, RecordB>>

\* What does happen: the header stays in the datagram buffer and comes out in
\* front of the next record, which gets its sequence number and timestamp
C21_ZeroPayloadRecordPrefixesNext ==
    (stream = ZeroPayloadRecord \o RecordA \o RecordB /\ streamPos = Len(stream)) =>
        /\ emitted = <<ZeroPayloadRecord \o RecordA, RecordB>>
        /\ UrtpSequenceNumber(emitted[1]) = 3
        /\ UrtpTimestamp(emitted[1]) = 260

C21_Witness ==
    /\ stream = ZeroPayloadRecord \o RecordA \o RecordB
    /\ streamPos = Len(stream)
    /\ Len(emitted) = 2

-----------------------------------------------------------------------------
(* Claims about the decoders, checked under SpecDecode *)

\* The samples the claim expects of a UNICAM payload of B bytes
UnicamSamplesExpected(B) == ((B * 8) \div 132) * 16

\* C22 (as the claim states it): for a UNICAM payload of B bytes, 1 <= B,
\* decodeUnicam returns exactly floor(B * 8 / 132) * 16 samples.
C22_UnicamSampleCount ==
    (decodeOutput.done /\ decodeInput.coding = 1) =>
        /\ ~decodeOutput.panic
        /\ decodeOutput.samples = UnicamSamplesExpected(Len(decodeInput.payload))

\* What does hold: decodeUnicam returns that number of samples when the
\* payload is a whole number of block pairs (33 bytes each), and panics on
\* every other payload
C22_UnicamWholePairsOnly ==
    (decodeOutput.done /\ decodeInput.coding = 1) =>
        IF Len(decodeInput.payload) % 33 = 0
        THEN /\ ~decodeOutput.panic
             /\ decodeOutput.samples = UnicamSamplesExpected(Len(decodeInput.payload))
        ELSE decodeOutput.panic

C22_Witness ==
    /\ decodeOutput.done
    /\ decodeInput.coding = 1
    /\ Len(decodeInput.payload) = 66
    /\ decodeOutput.samples = 64

\* The signed 16-bit value with the given high and low bytes
Signed16(high, low) ==
    IF high * 256 + low >= 32768 THEN high * 256 + low - 65536 ELSE high * 256 + low

\* C23: for a PCM payload of N big-endian samples (2N bytes) decodePcm returns
\* N samples, sample i being the signed 16-bit value of bytes 2i (high) and
\* 2i+1 (low) of the payload, and the bytes written to the timeline for the
\* record are these samples in little-endian order, the payload with the two
\* bytes of every sample swapped.
C23_PcmRoundTrip ==
    (decodeOutput.done /\ decodeInput.coding = 0 /\ Len(decodeInput.payload) % 2 = 0) =>
        LET payload == decodeInput.payload
            N == Len(payload) \div 2
        IN /\ Len(decodeOutput.audio) = N
           /\ \A i \in 1..N :
                 decodeOutput.audio[i] = Signed16(payload[2 * i - 1], payload[2 * i])
           /\ decodeOutput.written =>
                 /\ Len(decodeOutput.audioBytes) = 2 * N
                 /\ \A i \in 1..N :
                       /\ decodeOutput.audioBytes[2 * i - 1] = payload[2 * i]
                       /\ decodeOutput.audioBytes[2 * i] = payload[2 * i - 1]

C23_Witness ==
    /\ decodeOutput.written
    /\ decodeInput.payload = <<128, 1, 255, 255>>
    /\ decodeOutput.audio = <<0 - 32767, 0 - 1>>
    /\ decodeOutput.audioBytes = <<1, 128, 255, 255>>

-----------------------------------------------------------------------------
(* Claims about the timing datagrams, checked under SpecUdp *)

\* A timing datagram is only sent for a record that was delivered
EchoAfterValidRecord == udpOutcome.echo => udpOutcome.delivered

\* It is the 11 bytes sync, sequence number, timestamp of the header received
EchoBytes ==
    udpOutcome.echo =>
        udpOutcome.timingDatagram
            = <<udpOutcome.packet.sync>> \o SubSeq(PacketHeader(udpOutcome.packet), 3, 12)

\* Two timing datagrams sent one after the other are more than 1 s apart
EchoesApart ==
    echoTimes[1] # ZeroTime => echoTimes[2] - echoTimes[1] > 1000

\* A send that failed leaves timingDatagramSent as it was
FailedSendKeepsTime ==
    (udpPc = "send" /\ udpPc' = "read" /\ ~udpOutcome'.sent) =>
        timingDatagramSent' = timingDatagramSent

\* A record delivered more than 1 s after timingDatagramSent has a timing
\* datagram sent for it
DueIsAttempted ==
    (udpPc = "read" /\ udpOutcome' # udpOutcome /\ udpOutcome'.delivered
       /\ now > timingDatagramSent + 1000) => udpOutcome'.echo

\* C24 (as the claim states it): a timing datagram is sent only after a
\* valid record, is the 11 bytes sync, sequence number and timestamp of that
\* record, any two sent successfully are more than 1 s apart, and a failed
\* send leaves the time of the last one unchanged so that the next valid
\* record has one sent.
C24_TimingEcho ==
    [][/\ EchoAfterValidRecord'
       /\ EchoBytes'
       /\ EchoesApart'
       /\ FailedSendKeepsTime
       /\ DueIsAttempted]_vars

\* What does hold: all of it but the distance between two timing datagrams
C24_TimingEchoButDistance ==
    [][/\ EchoAfterValidRecord'
       /\ EchoBytes'
       /\ FailedSendKeepsTime
       /\ DueIsAttempted]_vars

\* Two timing datagrams sent at the same time
C24_Witness == echoTimes[1] # ZeroTime /\ echoTimes[2] = echoTimes[1]

-----------------------------------------------------------------------------
(* Claims about makePlaylist, checked under SpecMake *)

\* The values of the lines with the given tag, in the order of the playlist
RECURSIVE ValuesOf(_, _)
ValuesOf(lines, tag) ==
    IF lines = <<>> THEN <<>>
    ELSE (IF Head(lines).tag = tag THEN <<Head(lines).value>> ELSE <<>>)
         \o ValuesOf(Tail(lines), tag)

\* The indexes of the usable segments of a list, in the order of the list
UsableIndexes(list) == {i \in 1..Len(list) : list[i].usable}

\* The largest of a set of numbers, 0 for the empty set
Largest(S) == IF S = {} THEN 0 ELSE CHOOSE m \in S : \A x \in S : x <= m

RECURSIVE Total(_, _)
Total(list, S) ==
    IF S = {} THEN 0
    ELSE LET i == CHOOSE x \in S : TRUE IN list[i].duration + Total(list, S \ {i})

\* C25: the playlist always starts with #EXTM3U and #EXT-X-VERSION:3; the
\* TARGETDURATION and MEDIA-SEQUENCE lines and the segment entries are there
\* if and only if a segment is usable; TARGETDURATION is the largest usable
\* duration in seconds, rounded up; MEDIA-SEQUENCE is the number passed in;
\* #EXT-X-START is there if and only if the usable durations add up to more
\* than 1 s; there is one #EXTINF and file name pair for every usable segment,
\* in list order; the duration returned is the sum of the usable durations.
C25_PlaylistContents ==
    makeOutput.done =>
        LET lines == makeOutput.lines
            list == makeInput.list
            U == UsableIndexes(list)
            some == U # {}
            pairs == (Len(lines) - (IF some THEN 4 ELSE 2)
                        - Len(ValuesOf(lines, "#EXT-X-START"))) \div 2
            first == Len(lines) - 2 * pairs
        IN /\ Len(lines) >= 2
           /\ lines[1].tag = "#EXTM3U"
           /\ lines[2] = [tag |-> "#EXT-X-VERSION", value |-> 3]
           /\ Len(ValuesOf(lines, "#EXT-X-TARGETDURATION")) = (IF some THEN 1 ELSE 0)
           /\ Len(ValuesOf(lines, "#EXT-X-MEDIA-SEQUENCE")) = (IF some THEN 1 ELSE 0)
           /\ some =>
                 /\ lines[3] = [tag |-> "#EXT-X-TARGETDURATION",
                                value |-> (Largest({list[i].duration : i \in U}) + 999)
                                              \div 1000]
                 /\ lines[4] = [tag |-> "#EXT-X-MEDIA-SEQUENCE",
                                value |-> makeInput.mediaSequenceNumber]
           /\ Len(ValuesOf(lines, "#EXT-X-START"))
                 = (IF Total(list, U) > 1000 THEN 1 ELSE 0)
           /\ pairs = Cardinality(U)
           /\ \A k \in 1..pairs :
                 /\ lines[first + 2 * k - 1].tag = "#EXTINF"
                 /\ lines[first + 2 * k].tag = "file"
                 /\ lines[first + 2 * k].value \in U
                 /\ lines[first + 2 * k - 1].value = list[lines[first + 2 * k].value].duration
                 /\ k > 1 => lines[first + 2 * k].value > lines[first + 2 * k - 2].value
           /\ makeOutput.totalDuration = Total(list, U)

C25_Witness ==
    /\ makeOutput.done
    /\ Len(makeInput.list) = 3
    /\ makeInput.list[2].usable = FALSE
    /\ makeInput.mediaSequenceNumber = 7
    /\ makeOutput.lines =
          << [tag |-> "#EXTM3U", value |-> 0],
             [tag |-> "#EXT-X-VERSION", value |-> 3],
             [tag |-> "#EXT-X-TARGETDURATION", value |-> 2],
             [tag |-> "#EXT-X-MEDIA-SEQUENCE", value |-> 7],
             [tag |-> "#EXT-X-START", value |-> 1000],
             [tag |-> "#EXTINF", value |-> 1001], [tag |-> "file", value |-> 1],
             [tag |-> "#EXTINF", value |-> 500], [tag |-> "file", value |-> 3] >>

-----------------------------------------------------------------------------
(* Claims about the HTTP handlers, checked under SpecHttp *)

\* The headers that stop caching are in a header
NoCache(header) ==
    /\ header["cache-control"] = "no-cache, no-store, must-revalidate, max-age=0"
    /\ header["expires"] # ""
    /\ header["pragma"] = "no-cache"

\* C26: every response the publisher writes (the redirect from /, the
\* playlist, a segment, any other file) carries the headers that stop caching:
\* they are set before the response is written.
C26_EveryResponseNoCache ==
    httpResponse.written => NoCache(httpResponse.header)

\* What does hold: the redirect from / carries the headers that stop caching
C26_RedirectNoCache ==
    (httpResponse.written /\ httpResponse.status = 302) => NoCache(httpResponse.header)

\* A playlist has been served and stopCache has been called for it
C26_Witness ==
    /\ httpPc = "done"
    /\ httpRequest.method = "GET"
    /\ httpRequest.route = "stream"
    /\ httpRequest.ext = PLAYLIST_EXTENSION
    /\ httpResponse.written
    /\ httpResponse.status = 200
    /\ NoCache(httpHeader)
    /\ ~NoCache(httpResponse.header)

-----------------------------------------------------------------------------
(* Claims about the order of the datagrams, checked under SpecOrder *)

\* The datagram the channel goroutine holds, as a sequence
Held == IF consumerMsg = NoDatagram THEN <<>> ELSE <<consumerMsg>>

\* C27: the records are applied to the timeline in exactly the order in
\* which they were accepted; the channel, the new list and the drain of the
\* tick neither reorder, duplicate nor drop a record, however the arrivals
\* interleave with the ticks: the records applied, then those in the new
\* list, then the one in hand, are the records accepted, in order.
C27_AppliedInAcceptedOrder ==
    accepted = applied \o newDatagramList \o Held

\* A tick is in the middle of its drain, one record applied and one to go,
\* while the channel goroutine waits for the mutex with a third
C27_Witness ==
    /\ newDatagramListLocker = "tick"
    /\ Len(applied) = 1
    /\ Len(newDatagramList) = 1
    /\ consumerMsg # NoDatagram

-----------------------------------------------------------------------------
(* Claims about the mutexes of the publisher, checked under SpecOut *)

\* The list as an iteration sees it: the elements and their flags, in order
Shape(l) ==
    [i \in 1..Len(l) |->
        [fileName |-> l[i].fileName, usable |-> l[i].usable, removable |-> l[i].removable]]

\* A step of the control goroutine that changes the list or walks it to
\* build a playlist
ControlTouchesList ==
    /\ ctlPc' # ctlPc
    /\ \/ Shape(mp3FileList') # Shape(mp3FileList)
       \/ ctlData' # ctlData /\ ctlData' # NoData

\* A step of the ticker goroutine that changes the list
TickChangesList ==
    /\ ctlPc' = ctlPc
    /\ Shape(mp3FileList') # Shape(mp3FileList)

\* C28: every change of the segment list (the append of a new segment, the
\* removals of the tick and of Reset) and every walk over it (the ageing
\* pass of the tick, every rebuild of the playlist) is made with the mutex
\* of the list held: the ticker goroutine changes the list only while it
\* holds the mutex, and the control goroutine neither changes nor walks the
\* list while the ticker goroutine holds it.
C28_ListUnderMutex ==
    [][/\ TickChangesList => mp3FileListLocker = "tick"
       /\ ControlTouchesList => mp3FileListLocker = "free"]_vars

\* What does hold: the tick changes the list only with the mutex held, and
\* the removals of Reset are made while the tick does not hold it
C28_TickAndResetUnderMutex ==
    [][/\ TickChangesList => mp3FileListLocker = "tick"
       /\ (ctlPc = "resetDelete" /\ ctlPc' # ctlPc) => mp3FileListLocker = "free"]_vars

\* The tick, in the middle of its pass and holding the mutex, finds that the
\* control goroutine has appended a segment and built a playlist
C28_Witness ==
    /\ mp3FileListLocker = "tick"
    /\ ctlPc = "newPublish"
    /\ tickPc = "remove"
    /\ Len(mp3FileList) = 2

\* No rebuild of the playlist is under way
NoRebuild == tickPc # "publish" /\ ctlPc = "idle"

\* C29: the rebuilds of the playlist are serialised by the mutex of the
\* playlist and the published bytes are read and written under it only, so
\* that a playlist response is the whole output of one rebuild and the
\* rebuild with the newest view of the list is the one left published: the
\* playlist does not change while a request holds the mutex, and with no
\* rebuild under way it is the playlist of the list as it is.
C29_NewestRebuildPublished ==
    [][/\ playlist' # playlist => playlistLocker = "free"
       /\ NoRebuild' => playlist' = PlaylistBytes(mp3FileList', mediaSequenceNumber')]_vars

\* What does hold: makePlaylist publishes under the mutex, and what it
\* publishes is the whole output of one rebuild
C29_RebuildsPublishUnderMutex ==
    [][(playlist' # playlist /\ ~playlist'.nil) =>
          /\ playlistLocker = "free"
          /\ playlist' \in {tickData.bytes, ctlData.bytes}]_vars

\* With no rebuild under way, the published playlist names a segment that
\* the list holds as not usable
C29_Witness ==
    /\ NoRebuild
    /\ \E i \in 1..Len(mp3FileList) :
         /\ ~mp3FileList[i].usable
         /\ \E j \in 1..Len(playlist.segments) :
              playlist.segments[j].fileName = mp3FileList[i].fileName

-----------------------------------------------------------------------------
(* Claims about the goroutines of the segmenter, checked under SpecProc *)

\* A step that puts silence into pcmAudio
InjectsSilence == silence' # silence /\ silence'.injected > 0

\* C30: the timeline buffer, the segment file handle and the counters of the
\* segmenter are touched by one task only; no two tasks read or write the
\* timeline buffer at a time, and a tick and an injection of silence never
\* overlap: pcmAudio changes only in the steps of the tick, and silence is
\* put in only between two ticks.
C30_TimelineSingleTask ==
    [][/\ pcmAudioLen' # pcmAudioLen => procPc' # procPc
       /\ InjectsSilence => procPc = "idle"]_vars

\* What does hold: the new list is emptied by the tick only
C30_NewListDrainedByTick ==
    [][Len(newDatagramList') < Len(newDatagramList) => procPc' # procPc]_vars

\* Silence has been put into pcmAudio between the drain and the encoding of
\* one tick
C30_Witness ==
    /\ procPc = "encode"
    /\ silence.received
    /\ silence.injected > 0

-----------------------------------------------------------------------------
(* Claims about the goroutines, checked under SpecIngest and SpecTasks *)

-----------------------------------------------------------------------------
(* Claims about the TCP server, checked under SpecConnections *)

\* C32: when a new TCP connection is accepted the one before it is closed
\* before the new reader starts; at no time do two readers run the
\* reassembly together or put bytes into the same record, and what the old
\* connection left never gets into the records of the new one.
C32_LastWriterWins ==
    /\ \A c \in Connections : reader[c] # "none" /\ c # currentServer => c \notin connOpen
    /\ Cardinality({c \in Connections : reader[c] = "loop"}) <= 1
    /\ \A c \in Connections : took[c] \subseteq {c}

\* What does hold: the connection before is closed before the new reader
\* starts, so that at most one connection is open
C32_PreviousConnectionClosed ==
    /\ \A c \in Connections : reader[c] # "none" /\ c # currentServer => c \notin connOpen
    /\ connOpen \subseteq {currentServer}

\* The goroutine of the second connection has taken a byte of the first
C32_Witness ==
    /\ currentServer = 2
    /\ 1 \notin connOpen
    /\ 1 \in took[2]

-----------------------------------------------------------------------------
(* Claims about the sequence numbers, checked under SpecGap *)

\* A datagram has been processed after another one
ProcessedAfterPrevious ==
    /\ pcmWrites' # pcmWrites \/ processedDatagramList' # processedDatagramList
    /\ pcmWrites'.hadPrevious

\* The datagram is a duplicate of the previous one, or behind it, or so far
\* ahead that the gap is not filled
DuplicateOrOlder ==
    pcmWrites'.jump = 0 \/ pcmWrites'.jump >= 25

\* The audio of the datagram just processed has been written whole
OwnAudioAppended ==
    /\ processedDatagramList' # <<>>
    /\ LET datagram == Head(processedDatagramList')
       IN pcmWrites'.audio = IF datagram.Audio = NilAudio THEN 0 ELSE datagram.Audio

\* C33: the gap is found with 16-bit modular arithmetic: sequence number 0
\* after 65535 is consecutive and gets no fill; a duplicate or an older
\* record (a modular difference of 25 blocks or more) gets no fill for the
\* jump, and its own audio is still appended to the timeline.
C33_ModularGapDetection ==
    [][ProcessedAfterPrevious =>
          /\ pcmWrites'.jump = 1 => pcmWrites'.gapFill = 0
          /\ DuplicateOrOlder =>
                /\ pcmWrites'.gapFill = 0
                /\ ~pcmWrites'.panic
                /\ OwnAudioAppended]_vars

\* What does hold: the same, unless handleGap panics because the previous
\* datagram has no audio
C33_ModularGapDetectionUnlessPanic ==
    [][(ProcessedAfterPrevious /\ ~pcmWrites'.panic) =>
          /\ pcmWrites'.jump = 1 => pcmWrites'.gapFill = 0
          /\ DuplicateOrOlder => pcmWrites'.gapFill = 0 /\ OwnAudioAppended]_vars

\* Sequence number 0 has been processed after 65535, with no fill
C33_Witness ==
    /\ pcmWrites.hadPrevious
    /\ pcmWrites.jump = 1
    /\ pcmWrites.gapFill = 0
    /\ pcmWrites.audio = SAMPLES_PER_BLOCK
    /\ processedDatagramList # <<>>
    /\ Head(processedDatagramList).SequenceNumber = 0

-----------------------------------------------------------------------------
(* Claims about deadlock, checked under SpecTasks *)

\* The goroutines that wait to send on a channel
BlockedSenders ==
    {t \in Ingest : task[t] = "send"}
        \cup (IF task.segTick \in {"sendReset", "sendSegment"} THEN {"segTick"} ELSE {})
        \cup (IF task.pubTick = "send" THEN {"pubTick"} ELSE {})

-----------------------------------------------------------------------------
(* Claims about the completeness of a published segment, checked under
   SpecProc and SpecOut *)

\* C35 (as the claim states it): a segment is sent to the publisher only
\* after its ID3 tag and all its MP3 bytes were written and its file was
\* closed without error: the file sent is not the one being written, it is
\* not one whose tag or data write failed, and its Close reported no error.
C35_AdvertisedOnlyWhenComplete ==
    (mediaSent.type = "segment") =>
        /\ mediaSent.fileName # mp3Handle
        /\ mediaSent.fileName \notin orphans
        /\ mediaSent.closed

\* What does hold: the file sent is never the one being written nor one whose
\* tag or data write failed
C35_AdvertisedAfterWrites ==
    (mediaSent.type = "segment") =>
        /\ mediaSent.fileName # mp3Handle
        /\ mediaSent.fileName \notin orphans

\* What does hold in the publisher: the file being written and the files whose
\* write failed are never in the segment list nor in the playlist
C35_OpenSegmentNotListed ==
    /\ mp3Handle \notin Names(mp3FileList)
    /\ orphans \cap Names(mp3FileList) = {}

-----------------------------------------------------------------------------
(* Claims about the publication of a new segment, checked under SpecPublish *)

InPlaylist(f) == \E j \in 1..Len(playlist.segments) : playlist.segments[j].fileName = f

\* The control goroutine has appended segment f and waits to publish the
\* playlist it built
Accepted(f) ==
    /\ ctlPc = "newPublish"
    /\ mp3FileList # <<>>
    /\ mp3FileList[Len(mp3FileList)].fileName = f
    /\ mp3FileList[Len(mp3FileList)].usable

-----------------------------------------------------------------------------
(* Claims about a gap after a record with no audio, checked under SpecFill *)

\* The zero samples handleGap writes when there is no previous record
ZeroFill(gap) == HandleGapBytes(gap, NoPrevious).bytes

\* C37 (as the claim states it): handleGap never fails; called for a gap to
\* fill after a previous record that carried no audio, it completes and
\* writes zero samples, exactly as it does with no previous record.
C37_NoAudioFilledWithZeros ==
    (fillOutput.done /\ Fillable(fillInput.gap)
         /\ fillInput.previousDatagram.datagram
         /\ fillInput.previousDatagram.samples = <<>>) =>
        /\ ~fillOutput.panic
        /\ fillOutput.bytes = ZeroFill(fillInput.gap)

\* What does hold: a previous record whose audio is an empty slice gets the
\* zero fill of no previous record, and one whose Audio is nil is the only
\* case in which handleGap does not complete
C37_EmptyAudioFilledWithZeros ==
    /\ (fillOutput.done /\ fillInput.previousDatagram = PreviousWith(<<>>)) =>
           (~fillOutput.panic /\ fillOutput.bytes = ZeroFill(fillInput.gap))
    /\ (fillOutput.done /\ fillOutput.panic) =>
           fillInput.previousDatagram = PreviousNilAudio

-----------------------------------------------------------------------------
(* Claims about the reads of decodeUnicam, checked under SpecDecode *)

\* C38 (as the claim states it): decodeUnicam never reads past the end of
\* its payload: for every payload length from 1 byte up, the index of every
\* sample byte and shift byte it reads is below the length of the payload.
C38_UnicamReadsWithinPayload ==
    (decodeOutput.done /\ decodeInput.coding = UNICAM_COMPRESSED_8_BIT) =>
        ~decodeOutput.panic

\* What does hold: the reads stay within a payload made of whole pairs of
\* blocks, 33 bytes each
C38_UnicamReadsWithinWholePairs ==
    (decodeOutput.done /\ decodeInput.coding = UNICAM_COMPRESSED_8_BIT
         /\ Len(decodeInput.payload) % (2 * SAMPLES_PER_UNICAM_BLOCK + 1) = 0) =>
        ~decodeOutput.panic

-----------------------------------------------------------------------------
(* Claims about the flags of a segment, checked under SpecOut *)

\* C39: the flags of a segment are consistent and monotone: a removable
\* segment is not usable, a segment that is not usable never becomes usable
\* again and a removable one never becomes not removable, for as long as it
\* is on the list.
C39_FlagsMonotone ==
    /\ [](\A i \in 1..Len(mp3FileList) :
             mp3FileList[i].removable => ~mp3FileList[i].usable)
    /\ [][NeverYounger]_vars

\* The list holds a removable segment, whose file could not be deleted, in
\* front of a usable one
C39_Witness ==
    /\ Len(mp3FileList) = 2
    /\ mp3FileList[1].removable
    /\ ~mp3FileList[1].usable
    /\ mp3FileList[2].usable
    /\ ~mp3FileList[2].removable

-----------------------------------------------------------------------------
(* Claims about the reassembly data between records, checked under
   SpecStream *)

\* C40 (as the claim states it): whenever the reassembly waits for a sync
\* byte, between two bytes of the stream, the data kept for one record is
\* clean: the header buffer is empty, the byte count is 0, the payload size
\* left is 0 and the datagram buffer holds no byte of an earlier record.
C40_AwaitingSyncIsClean ==
    (reassemblyData.State = "WAITING_SYNC") =>
        /\ reassemblyData.Header = <<>>
        /\ reassemblyData.ByteCount = 0
        /\ reassemblyData.PayloadSize = 0
        /\ reassemblyData.Datagram = <<>>

\* What does hold: the header buffer is empty and both counters are 0, and
\* the datagram buffer holds nothing but the whole headers of the records
\* without payload received since the last record delivered
C40_AwaitingSyncCleanButDatagram ==
    (reassemblyData.State = "WAITING_SYNC") =>
        /\ reassemblyData.Header = <<>>
        /\ reassemblyData.ByteCount = 0
        /\ reassemblyData.PayloadSize = 0
        /\ Len(reassemblyData.Datagram) % URTP_HEADER_SIZE = 0
        /\ \A k \in 1..Len(reassemblyData.Datagram) :
              (k % URTP_HEADER_SIZE = 1) => reassemblyData.Datagram[k] = SYNC_BYTE

=============================================================================
